---- MODULE Spec2Model ----
(***************************************************************************)
(* fping: probe scheduler and reply correlator (src/fping/src/fping.c).    *)
(*                                                                         *)
(* The model follows main_loop() step by step.  Time is an integer number  *)
(* of clock ticks; every call of update_current_time() reads a clock that  *)
(* has not gone backwards and may have advanced by a bounded amount.       *)
(* The two event queues are modelled at pointer level (first, last,        *)
(* ev_prev, ev_next) because the code addresses event slots directly.      *)
(***************************************************************************)
EXTENDS Integers, Sequences, FiniteSets, TLC

\* ---------------------------------------------------------------- bounds
\* clock value when the target table is built: the clock does not start at
\* zero, so the first probe is not held back by the global interval
StartTime == 4
\* number of clock ticks after StartTime the model explores
MaxTime == 5
\* largest amount the clock advances beyond the minimum at one clock read
MaxJump == 1
\* number of replies matched to one host through the sequence map
MaxReplies == 2
\* cap on the probes sent to one host and on its num_sent (loop mode sends
\* without end, and a corrupted timeout queue can replay an event without end)
MaxCount == 4
\* latest due time given to an event when the queue is exercised on its own
MaxEvTime == 1
\* largest ping index given to an event when the queue is exercised on its own
MaxIndex == 2

\* ------------------------------------------------------- program constants
RESP_WAITING == -1
RESP_UNUSED == -2
RESP_ERROR == -3
RESP_TIMEOUT == -4

\* retention window of the sequence map, in clock ticks
SEQMAP_TIMEOUT == 4

\* ---------------------------------------------------------- configuration
\* One record per run: the options of the command line (backoff is the
\* rational num/den) and the environment of the run: whether sendto() can
\* fail (env_send_errors), whether packets that are not replies to our probes
\* arrive (env_junk), whether the kernel stamps received packets
\* (env_kernel_ts, SO_TIMESTAMPNS), and which signals are delivered.
BaseCfg ==
  [mode |-> "oneshot", num_hosts |-> 1, count |-> 1, retry |-> 1,
   timeout |-> 2, interval |-> 1, perhost_interval |-> 2,
   backoff_flag |-> TRUE, backoff |-> <<3, 2>>,
   min_reachable |-> 0, fast_reachable |-> FALSE, num_noaddress |-> 0,
   report_interval |-> 0, cumulative_stats_flag |-> FALSE,
   netdata_flag |-> FALSE, check_source_flag |-> FALSE,
   env_send_errors |-> FALSE, env_junk |-> FALSE, env_kernel_ts |-> FALSE,
   env_sigint |-> FALSE, env_sigquit |-> FALSE]

\* the environments a configuration is run in: one source of disturbance
\* at a time
Envs(c) ==
  { c, [c EXCEPT !.env_send_errors = TRUE], [c EXCEPT !.env_junk = TRUE],
    [c EXCEPT !.env_kernel_ts = TRUE], [c EXCEPT !.env_sigint = TRUE],
    [c EXCEPT !.env_sigquit = TRUE] }

OneShotCfg(n, r, t, i, b, bf) ==
  [BaseCfg EXCEPT !.num_hosts = n, !.retry = r, !.timeout = t, !.interval = i,
                  !.backoff = b, !.backoff_flag = bf]

CountCfg(n, c, t, i, p) ==
  [BaseCfg EXCEPT !.mode = "count", !.num_hosts = n, !.count = c, !.timeout = t,
                  !.interval = i, !.perhost_interval = p]

LoopCfg(n, t, i, p) ==
  [BaseCfg EXCEPT !.mode = "loop", !.num_hosts = n, !.timeout = t,
                  !.interval = i, !.perhost_interval = p, !.backoff_flag = FALSE]

\* a run in which no target was added to the table (an empty target file, or
\* names that all failed to resolve)
NoTargets(c) ==
  { [c EXCEPT !.num_hosts = 0, !.num_noaddress = na] : na \in {0, 1} }

OneShotConfigs ==
  UNION { Envs(OneShotCfg(1, r, 2, 1, <<3, 2>>, TRUE)) : r \in {0, 1} }
  \cup Envs(OneShotCfg(1, 2, 1, 1, <<2, 1>>, TRUE))
  \cup { OneShotCfg(1, 2, 1, 1, <<3, 2>>, bf) : bf \in BOOLEAN }
  \cup { OneShotCfg(1, 1, 2, 3, <<3, 2>>, TRUE) }
  \cup { OneShotCfg(2, 1, 1, 1, <<2, 1>>, TRUE),
         [OneShotCfg(2, 1, 1, 1, <<2, 1>>, TRUE) EXCEPT !.env_send_errors = TRUE] }
  \cup { [OneShotCfg(2, 0, 1, 1, <<3, 2>>, TRUE) EXCEPT !.num_noaddress = 1],
         [OneShotCfg(2, 0, 1, 1, <<3, 2>>, TRUE) EXCEPT !.min_reachable = 1] }
  \cup NoTargets(OneShotCfg(1, 1, 2, 1, <<3, 2>>, TRUE))

CountConfigs ==
  Envs(CountCfg(1, 2, 2, 1, 1))
  \cup { CountCfg(1, 2, 2, 1, 2), CountCfg(2, 1, 1, 1, 1), CountCfg(2, 2, 1, 1, 1) }
  \cup NoTargets(CountCfg(1, 2, 2, 1, 1))

\* loop mode: timeout = period (two event slots per host), timeout < period
\* (one slot), with and without a global interval
LoopConfigs ==
  { LoopCfg(1, 1, 1, 1),
    [LoopCfg(1, 1, 1, 1) EXCEPT !.env_sigint = TRUE],
    [LoopCfg(1, 1, 1, 2) EXCEPT !.env_send_errors = TRUE],
    LoopCfg(1, 2, 1, 2),
    LoopCfg(1, 1, 0, 2) }
  \cup NoTargets(LoopCfg(1, 1, 1, 1))

\* exit status: two targets or none, every combination of -x/-X and
\* unresolved names
ExitConfigs ==
  { [c EXCEPT !.min_reachable = x[1], !.fast_reachable = x[2], !.num_noaddress = na,
              !.env_sigint = si] :
      c \in { OneShotCfg(2, 0, 1, 1, <<3, 2>>, TRUE), CountCfg(2, 1, 1, 1, 1),
              OneShotCfg(0, 0, 1, 1, <<3, 2>>, TRUE) },
      x \in { <<0, FALSE>>, <<1, FALSE>>, <<1, TRUE>>, <<2, FALSE>>, <<2, TRUE>> },
      na \in {0, 1}, si \in BOOLEAN }
  \cup Envs(OneShotCfg(2, 0, 1, 1, <<3, 2>>, TRUE))

Configs == OneShotConfigs \cup CountConfigs \cup LoopConfigs

\* -X N
FastCfg(c, n) == [c EXCEPT !.min_reachable = n, !.fast_reachable = TRUE]

\* --fast-reachable: two targets in one-shot and count mode with N = 1 and
\* N = 2, one target in loop mode, with signals and stray packets
FastReachConfigs ==
  { [FastCfg(c, n) EXCEPT !.env_sigint = si] :
      c \in { OneShotCfg(2, 0, 1, 1, <<3, 2>>, TRUE), CountCfg(2, 1, 1, 1, 1) },
      n \in {1, 2}, si \in BOOLEAN }
  \cup { FastCfg(LoopCfg(1, 1, 1, 1), 1),
         [FastCfg(OneShotCfg(2, 1, 1, 1, <<3, 2>>, TRUE), 1) EXCEPT !.env_junk = TRUE],
         [FastCfg(OneShotCfg(2, 0, 1, 1, <<3, 2>>, TRUE), 2) EXCEPT !.env_sigquit = TRUE] }
  \cup NoTargets(FastCfg(OneShotCfg(1, 0, 1, 1, <<3, 2>>, TRUE), 1))

\* SIGINT in every mode, and with stray packets or SIGQUIT; the second
\* loop-mode run has one event slot per host and probes that overlap
ShutdownConfigs ==
  { [c EXCEPT !.env_sigint = TRUE] :
      c \in { OneShotCfg(1, 1, 2, 1, <<3, 2>>, TRUE), CountCfg(1, 2, 2, 1, 1),
              LoopCfg(1, 1, 1, 3), LoopCfg(1, 1, 0, 2) } }
  \cup { [OneShotCfg(1, 0, 1, 1, <<3, 2>>, TRUE) EXCEPT !.env_sigint = TRUE, !.env_junk = TRUE],
         [OneShotCfg(1, 0, 1, 1, <<3, 2>>, TRUE) EXCEPT !.env_sigint = TRUE,
                                                        !.env_sigquit = TRUE] }
  \cup NoTargets([LoopCfg(1, 1, 1, 1) EXCEPT !.env_sigint = TRUE])

\* one-shot and count runs in every environment
TerminationConfigs ==
  Envs(OneShotCfg(1, 1, 2, 1, <<3, 2>>, TRUE))
  \cup { CountCfg(1, 2, 2, 1, 1),
         [CountCfg(1, 2, 2, 1, 1) EXCEPT !.env_send_errors = TRUE],
         [CountCfg(1, 2, 2, 1, 1) EXCEPT !.env_kernel_ts = TRUE] }
  \cup { OneShotCfg(2, 1, 1, 1, <<2, 1>>, TRUE), OneShotCfg(1, 2, 1, 1, <<3, 2>>, FALSE) }
  \cup NoTargets(OneShotCfg(1, 1, 2, 1, <<3, 2>>, TRUE))

\* replies: one-shot runs with backoff and count runs, with and without
\* --check-source, with stray packets, kernel timestamps and signals, and
\* one loop run
ReplyConfigs ==
  { [c EXCEPT !.check_source_flag = cs] :
      c \in { OneShotCfg(1, 1, 2, 1, <<3, 2>>, TRUE), OneShotCfg(1, 2, 1, 1, <<2, 1>>, TRUE),
              CountCfg(1, 2, 2, 1, 1) },
      cs \in BOOLEAN }
  \cup { [OneShotCfg(1, 1, 2, 1, <<3, 2>>, TRUE) EXCEPT !.env_junk = TRUE],
         [OneShotCfg(1, 1, 2, 1, <<3, 2>>, TRUE) EXCEPT !.env_kernel_ts = TRUE],
         [OneShotCfg(1, 1, 2, 1, <<3, 2>>, TRUE) EXCEPT !.env_sigint = TRUE],
         [OneShotCfg(1, 1, 2, 1, <<3, 2>>, TRUE) EXCEPT !.env_sigquit = TRUE],
         LoopCfg(1, 1, 1, 1) }
  \cup NoTargets(OneShotCfg(1, 1, 2, 1, <<3, 2>>, TRUE))

\* -Q SECS[,cumulative] and -N
ReportCfg(c, ri, cum, nd) ==
  [c EXCEPT !.report_interval = ri, !.cumulative_stats_flag = cum, !.netdata_flag = nd]

\* periodic reports: count and loop runs with -Q, with and without
\* "cumulative" and -N, and one one-shot run (where -Q prints nothing)
ReportConfigs ==
  UNION { Envs(ReportCfg(CountCfg(1, 2, 2, 1, 1), 1, cum, FALSE)) : cum \in BOOLEAN }
  \cup { ReportCfg(LoopCfg(1, 1, 1, 2), 2, cum, nd) : cum \in BOOLEAN, nd \in BOOLEAN }
  \cup { [ReportCfg(LoopCfg(1, 1, 1, 2), 2, cum, FALSE) EXCEPT !.env_sigquit = TRUE] :
            cum \in BOOLEAN }
  \cup { ReportCfg(OneShotCfg(1, 1, 2, 1, <<3, 2>>, TRUE), 1, FALSE, FALSE) }
  \cup NoTargets(ReportCfg(LoopCfg(1, 1, 1, 1), 2, FALSE, FALSE))

\* the wait computation: two targets held back by a global interval longer
\* than the timeout, a loop run whose timeout is shorter than its period,
\* with and without -Q
WaitConfigs ==
  Envs(ReportCfg(CountCfg(2, 1, 1, 2, 1), 2, FALSE, FALSE))
  \cup { ReportCfg(CountCfg(2, 1, 1, 2, 1), 1, FALSE, FALSE),
         CountCfg(2, 1, 1, 2, 1),
         ReportCfg(LoopCfg(1, 1, 1, 2), 2, FALSE, FALSE),
         ReportCfg(CountCfg(1, 2, 2, 1, 1), 1, FALSE, FALSE) }
  \cup NoTargets(ReportCfg(LoopCfg(1, 1, 1, 1), 2, FALSE, FALSE))

\* SIGQUIT in every mode, with -Q in count mode, with SIGINT and with stray
\* packets
SnapshotConfigs ==
  { [c EXCEPT !.env_sigquit = TRUE] :
      c \in { OneShotCfg(1, 1, 1, 1, <<3, 2>>, FALSE),
              LoopCfg(1, 1, 1, 3),
              ReportCfg(CountCfg(1, 2, 1, 1, 2), 1, FALSE, FALSE),
              [OneShotCfg(1, 0, 1, 1, <<3, 2>>, TRUE) EXCEPT !.env_sigint = TRUE],
              [OneShotCfg(1, 0, 1, 1, <<3, 2>>, TRUE) EXCEPT !.env_junk = TRUE] } }
  \cup NoTargets([LoopCfg(1, 1, 1, 1) EXCEPT !.env_sigquit = TRUE])

\* a stop requested while probes are queued or outstanding: the
\* --fast-reachable threshold with two targets and a retry, SIGINT in every
\* mode, with stray packets and SIGQUIT
StopConfigs ==
  { FastCfg(OneShotCfg(2, 1, 2, 1, <<3, 2>>, TRUE), 1),
    FastCfg(CountCfg(2, 1, 1, 1, 1), 1),
    [FastCfg(OneShotCfg(2, 0, 1, 1, <<3, 2>>, TRUE), 2) EXCEPT !.env_junk = TRUE],
    [OneShotCfg(2, 1, 1, 1, <<2, 1>>, TRUE) EXCEPT !.env_sigint = TRUE],
    [CountCfg(1, 2, 2, 1, 1) EXCEPT !.env_sigint = TRUE],
    [LoopCfg(1, 1, 1, 3) EXCEPT !.env_sigint = TRUE],
    [OneShotCfg(1, 0, 1, 1, <<3, 2>>, TRUE) EXCEPT !.env_sigint = TRUE,
                                                   !.env_sigquit = TRUE] }
  \cup NoTargets([LoopCfg(1, 1, 1, 1) EXCEPT !.env_sigint = TRUE])

VARIABLES
  cfg,                  \* the options, fixed after start-up
  pc,                   \* position of main(): nohosts, loop, wait, recv, finish, done, hang
  current_time_ns,
  last_send_time,
  next_report_time,
  wait_time_ns,
  got_packet,           \* wait_for_reply returned 1 in this iteration
  hosts,                \* table[]: host number -> HOST_ENTRY
  event_queue_ping,     \* [first, last, ev, hung]; ev = all event_storage_ping
  event_queue_timeout,  \* [first, last, ev, hung]; ev = all event_storage_timeout
  seqmap,               \* sequence of [host_nr, ping_count, ping_ts]
  counters,             \* num_alive, num_unreachable, num_timeout, num_pingsent, num_pingreceived
  finish_requested,
  status_snapshot,
  exit_status,
  hist                  \* history of the run, read by the properties and by
                        \* the network (which probes went out)

vars == <<cfg, pc, current_time_ns, last_send_time, next_report_time,
          wait_time_ns, got_packet, hosts, event_queue_ping,
          event_queue_timeout, seqmap, counters, finish_requested,
          status_snapshot, exit_status, hist>>


\* ------------------------------------------------------ derived settings
loop_flag == cfg.mode = "loop"
count_flag == cfg.mode = "count"

Hosts == 1 .. cfg.num_hosts

\* main(): trials = (count > retry + 1) ? count : retry + 1
trials == IF cfg.count > cfg.retry + 1 THEN cfg.count ELSE cfg.retry + 1

\* main(): how many pings can be in flight per host
event_storage_count_of(c) ==
  IF c.mode = "count" THEN c.count
  ELSE IF c.mode = "loop"
       THEN (IF c.perhost_interval > c.timeout THEN 1
             ELSE 1 + (c.timeout \div c.perhost_interval))
       ELSE 1

event_storage_count == event_storage_count_of(cfg)

\* ------------------------------------------------------------ event queue
NULL == [h |-> 0, s |-> 0]

EvRefsOf(c) == { [h |-> h, s |-> s] : h \in 1 .. c.num_hosts,
                                      s \in 0 .. event_storage_count_of(c) - 1 }

\* calloc()ed struct event
ZeroEvent == [ping_index |-> 0, ev_time |-> 0, ev_prev |-> NULL, ev_next |-> NULL]

EmptyQueue(c) == [first |-> NULL, last |-> NULL,
                  ev |-> [e \in EvRefsOf(c) |-> ZeroEvent], hung |-> FALSE]

\* the "find insertion point" loop of ev_enqueue, started at i; the loop does
\* not terminate when the ev_prev chain is circular and never reaches an
\* earlier event: hung records that the call did not return
RECURSIVE EnqueueScan(_, _, _, _)
EnqueueScan(q, e, i, fuel) ==
  LET i_prev == q.ev[i].ev_prev IN
  IF fuel = 0 THEN [q EXCEPT !.hung = TRUE]
  ELSE IF i_prev = NULL \/ q.ev[e].ev_time - q.ev[i_prev].ev_time >= 0
  THEN LET s1 == [q.ev EXCEPT ![e].ev_prev = i_prev]
           s2 == [s1 EXCEPT ![e].ev_next = i]
           s3 == [s2 EXCEPT ![i].ev_prev = e]
           s4 == IF i_prev # NULL THEN [s3 EXCEPT ![i_prev].ev_next = e] ELSE s3
       IN [first |-> IF i_prev # NULL THEN q.first ELSE e,
           last |-> q.last, ev |-> s4, hung |-> q.hung]
  ELSE EnqueueScan(q, e, i_prev, fuel - 1)

\* variant: an event is inserted before the events of the same ev_time
RECURSIVE EnqueueScanStrict(_, _, _, _)
EnqueueScanStrict(q, e, i, fuel) ==
  LET i_prev == q.ev[i].ev_prev IN
  IF fuel = 0 THEN [q EXCEPT !.hung = TRUE]
  ELSE IF i_prev = NULL \/ q.ev[e].ev_time - q.ev[i_prev].ev_time > 0
  THEN LET s1 == [q.ev EXCEPT ![e].ev_prev = i_prev]
           s2 == [s1 EXCEPT ![e].ev_next = i]
           s3 == [s2 EXCEPT ![i].ev_prev = e]
           s4 == IF i_prev # NULL THEN [s3 EXCEPT ![i_prev].ev_next = e] ELSE s3
       IN [first |-> IF i_prev # NULL THEN q.first ELSE e,
           last |-> q.last, ev |-> s4, hung |-> q.hung]
  ELSE EnqueueScanStrict(q, e, i_prev, fuel - 1)

ev_enqueueStrict(q, e) ==
  IF q.last = NULL
  THEN LET s1 == [q.ev EXCEPT ![e].ev_next = NULL]
           s2 == [s1 EXCEPT ![e].ev_prev = NULL]
       IN [first |-> e, last |-> e, ev |-> s2, hung |-> q.hung]
  ELSE IF q.ev[e].ev_time - q.ev[q.last].ev_time > 0
  THEN LET s1 == [q.ev EXCEPT ![e].ev_next = NULL]
           s2 == [s1 EXCEPT ![e].ev_prev = q.last]
           s3 == [s2 EXCEPT ![q.last].ev_next = e]
       IN [first |-> q.first, last |-> e, ev |-> s3, hung |-> q.hung]
  ELSE EnqueueScanStrict(q, e, q.last, Cardinality(DOMAIN q.ev) + 1)

\* ev_enqueue(queue, event); the field writes are applied in program order
ev_enqueue(q, e) ==
  IF q.last = NULL
  THEN LET s1 == [q.ev EXCEPT ![e].ev_next = NULL]
           s2 == [s1 EXCEPT ![e].ev_prev = NULL]
       IN [first |-> e, last |-> e, ev |-> s2, hung |-> q.hung]
  ELSE IF q.ev[e].ev_time - q.ev[q.last].ev_time >= 0
  THEN LET s1 == [q.ev EXCEPT ![e].ev_next = NULL]
           s2 == [s1 EXCEPT ![e].ev_prev = q.last]
           s3 == [s2 EXCEPT ![q.last].ev_next = e]
       IN [first |-> q.first, last |-> e, ev |-> s3, hung |-> q.hung]
  ELSE EnqueueScan(q, e, q.last, Cardinality(DOMAIN q.ev) + 1)

\* ev_remove(queue, event); the field writes are applied in program order
ev_remove(q, e) ==
  LET first1 == IF q.first = e THEN q.ev[e].ev_next ELSE q.first
      last1 == IF q.last = e THEN q.ev[e].ev_prev ELSE q.last
      s0 == q.ev
      s1 == IF s0[e].ev_prev # NULL
            THEN [s0 EXCEPT ![s0[e].ev_prev].ev_next = s0[e].ev_next] ELSE s0
      s2 == IF s1[e].ev_next # NULL
            THEN [s1 EXCEPT ![s1[e].ev_next].ev_prev = s1[e].ev_prev] ELSE s1
      s3 == [s2 EXCEPT ![e].ev_prev = NULL]
      s4 == [s3 EXCEPT ![e].ev_next = NULL]
  IN [first |-> first1, last |-> last1, ev |-> s4, hung |-> q.hung]

\* ev_dequeue(queue), called with a non-empty queue: the queue afterwards
ev_dequeue(q) == ev_remove(q, q.first)

\* the events met when walking ev_next from first (the walk stops when it
\* meets an event again)
RECURSIVE WalkFrom(_, _, _)
WalkFrom(q, e, seen) ==
  IF e = NULL \/ e \in seen THEN seen
  ELSE WalkFrom(q, q.ev[e].ev_next, seen \cup {e})

Linked(q) == WalkFrom(q, q.first, {})

\* host_add_ping_event / host_add_timeout_event: fill the slot, then enqueue
host_add_event(q, h, index, ev_time) ==
  LET e == [h |-> h, s |-> index % event_storage_count]
      s1 == [q.ev EXCEPT ![e].ping_index = index]
      s2 == [s1 EXCEPT ![e].ev_time = ev_time]
  IN ev_enqueue([q EXCEPT !.ev = s2], e)

host_add_ping_event(q, h, index, ev_time) == host_add_event(q, h, index, ev_time)

host_add_timeout_event(q, h, index, ev_time) == host_add_event(q, h, index, ev_time)

\* host_get_timeout_event(h, index)
host_get_timeout_event(h, index) == [h |-> h, s |-> index % event_storage_count]


\* ------------------------------------------------------------------ clock
\* update_current_time(): a clock read that is not before lo and at most
\* MaxJump after it
ClockReads(lo) == { t \in lo .. StartTime + MaxTime : t <= lo + MaxJump }

\* ------------------------------------------------------------ target table
\* add_addr(): a calloc()ed HOST_ENTRY; resp_times is malloc()ed and only
\* the entries 1 .. trials-1 are set to RESP_UNUSED, entry 0 is whatever the
\* allocator returned (r0)
NewHost(c, r0) ==
  [timeout |-> c.timeout, last_send_time |-> 0,
   num_sent |-> 0, num_recv |-> 0, num_recv_total |-> 0,
   max_reply |-> 0, min_reply |-> 0, total_time |-> 0,
   num_sent_i |-> 0, num_recv_i |-> 0,
   max_reply_i |-> 0, min_reply_i |-> 0, total_time_i |-> 0,
   resp_times |-> IF c.mode = "loop" THEN <<>>
                  ELSE [n \in 0 .. (IF c.count > c.retry + 1 THEN c.count ELSE c.retry + 1) - 1 |->
                          IF n = 0 THEN r0 ELSE RESP_UNUSED]]

\* variant: a reply does not count as sent
stats_addRecvOnly(hr, index, success, latency) ==
  IF ~success
  THEN LET h1 == [hr EXCEPT !.num_sent = @ + 1, !.num_sent_i = @ + 1] IN
       IF ~loop_flag /\ index >= 0
       THEN [h1 EXCEPT !.resp_times[index] = RESP_TIMEOUT]
       ELSE h1
  ELSE LET h2 == [hr EXCEPT
                    !.num_recv = @ + 1, !.num_recv_i = @ + 1,
                    !.max_reply = IF @ = 0 \/ latency > @ THEN latency ELSE @,
                    !.max_reply_i = IF @ = 0 \/ latency > @ THEN latency ELSE @,
                    !.min_reply = IF @ = 0 \/ latency < @ THEN latency ELSE @,
                    !.min_reply_i = IF @ = 0 \/ latency < @ THEN latency ELSE @,
                    !.total_time = @ + latency, !.total_time_i = @ + latency]
       IN IF ~loop_flag /\ index >= 0
          THEN [h2 EXCEPT !.resp_times[index] = latency]
          ELSE h2

\* stats_add(h, index, success, latency) on the HOST_ENTRY hr
stats_add(hr, index, success, latency) ==
  LET h1 == [hr EXCEPT !.num_sent = @ + 1, !.num_sent_i = @ + 1] IN
  IF ~success
  THEN IF ~loop_flag /\ index >= 0
       THEN [h1 EXCEPT !.resp_times[index] = RESP_TIMEOUT]
       ELSE h1
  ELSE LET h2 == [h1 EXCEPT
                    !.num_recv = @ + 1, !.num_recv_i = @ + 1,
                    !.max_reply = IF @ = 0 \/ latency > @ THEN latency ELSE @,
                    !.max_reply_i = IF @ = 0 \/ latency > @ THEN latency ELSE @,
                    !.min_reply = IF @ = 0 \/ latency < @ THEN latency ELSE @,
                    !.min_reply_i = IF @ = 0 \/ latency < @ THEN latency ELSE @,
                    !.total_time = @ + latency, !.total_time_i = @ + latency]
       IN IF ~loop_flag /\ index >= 0
          THEN [h2 EXCEPT !.resp_times[index] = latency]
          ELSE h2

\* variant: the interval total is kept
stats_reset_intervalKeepsTotal(hr) ==
  [hr EXCEPT !.num_sent_i = 0, !.num_recv_i = 0, !.max_reply_i = 0, !.min_reply_i = 0]

\* stats_reset_interval(h)
stats_reset_interval(hr) ==
  [hr EXCEPT !.num_sent_i = 0, !.num_recv_i = 0, !.max_reply_i = 0,
             !.min_reply_i = 0, !.total_time_i = 0]

\* variant: the product is rounded up
BackoffStepRoundUp(t) == (t * cfg.backoff[1] + cfg.backoff[2] - 1) \div cfg.backoff[2]

\* main_loop(): h->timeout *= backoff; the product is truncated to an
\* integer number of ticks
BackoffStep(t) == (t * cfg.backoff[1]) \div cfg.backoff[2]

\* variant: one retry more
NeedRetryOneMore(hr) == ~loop_flag /\ ~count_flag /\ hr.num_sent <= cfg.retry + 1

\* main_loop(): "do we need to send a retry?"
NeedRetry(hr) == ~loop_flag /\ ~count_flag /\ hr.num_sent < cfg.retry + 1

\* variant: a failed send is not counted in num_sent
SendErrorStatsUncounted(hr, index) ==
  IF ~loop_flag THEN [hr EXCEPT !.resp_times[index] = RESP_ERROR] ELSE hr

\* send_ping(): the branch taken when the send failed
SendErrorStats(hr, index) ==
  LET h1 == [hr EXCEPT !.num_sent = @ + 1, !.num_sent_i = @ + 1] IN
  IF ~loop_flag THEN [h1 EXCEPT !.resp_times[index] = RESP_ERROR] ELSE h1

\* ------------------------------------------------------------ sequence map
\* seqmap_add(host_nr, ping_count, timestamp): the map afterwards; the
\* sequence number returned is the length of the map
seqmap_add(m, host_nr, ping_count, now) ==
  Append(m, [host_nr |-> host_nr, ping_count |-> ping_count, ping_ts |-> now])

\* seqmap_fetch(seq, now) returns an entry
seqmap_present(m, seq, now) ==
  seq \in 1 .. Len(m) /\ now - m[seq].ping_ts <= SEQMAP_TIMEOUT

\* ------------------------------------------------------------- send_ping
\* no matched reply was handled in the last step
NoReply == [h |-> 0, index |-> 0, rtt |-> 0, timeout |-> 0, accepted |-> FALSE,
            src_ok |-> TRUE]

\* results of sendto(): TRUE when the probe went out
SendResults == IF cfg.env_send_errors THEN BOOLEAN ELSE {TRUE}

\* variant: the timeout is scheduled whether or not the send succeeded
SchedulesTimeoutAlways(ok) == TRUE

\* send_ping(): "schedule timeout" is in the else branch of "error sending?"
SchedulesTimeout(ok) == ok

\* send_ping(h, index) with the clock reading now and the send succeeding
\* (ok; a send that fails with EHOSTDOWN takes the same branch) or failing.
\* st = [hosts, tq, seqmap, counters, hist]
send_ping(st, h, index, now, ok) ==
  LET hr1 == [st.hosts[h] EXCEPT !.last_send_time = now]
      e == host_get_timeout_event(h, index)
      hr2 == IF ~ok THEN SendErrorStats(hr1, index)
             ELSE IF ~loop_flag THEN [hr1 EXCEPT !.resp_times[index] = RESP_WAITING]
             ELSE hr1
      tq2 == IF SchedulesTimeout(ok)
             THEN host_add_timeout_event(st.tq, h, index, now + hr1.timeout)
             ELSE st.tq
  IN [hosts |-> [st.hosts EXCEPT ![h] = hr2],
      tq |-> tq2,
      seqmap |-> seqmap_add(st.seqmap, h, index, now),
      counters |-> [st.counters EXCEPT !.num_pingsent = @ + 1],
      last_send_time |-> now,
      hist |-> [st.hist EXCEPT
                  !.attempts[h] = @ + 1,
                  !.errors[h] = IF ok THEN @ ELSE @ + 1,
                  !.credits = Append(@, 0),
                  !.on_wire = Append(@, ok),
                  !.index_of = Append(@, index),
                  !.deadline_of = Append(@, now + hr1.timeout),
                  !.late_sends = IF finish_requested THEN @ + 1 ELSE @,
                  !.slot_clash = @ \/ (ok /\ e \in Linked(st.tq)),
                  !.last_accept = NULL, !.last_reply = NoReply, !.last_report = 0,
                    !.snapshot = FALSE]]

\* ------------------------------------------------------------------- Init
RECURSIVE AddAddrs(_, _, _)
AddAddrs(q, c, h) ==
  IF h > c.num_hosts THEN q
  ELSE LET e == [h |-> h, s |-> 0]
           s1 == [q.ev EXCEPT ![e].ping_index = 0]
           s2 == [s1 EXCEPT ![e].ev_time = StartTime]
       IN AddAddrs(ev_enqueue([q EXCEPT !.ev = s2], e), c, h + 1)

InitHist(c) ==
  [attempts |-> [h \in 1 .. c.num_hosts |-> 0],
   timeouts |-> [h \in 1 .. c.num_hosts |-> 0],
   errors |-> [h \in 1 .. c.num_hosts |-> 0],
   consec |-> [h \in 1 .. c.num_hosts |-> 0],
   last_due |-> [h \in 1 .. c.num_hosts |-> 0],
   credits |-> <<>>,
   on_wire |-> <<>>,
   index_of |-> <<>>,
   deadline_of |-> <<>>,
   last_accept |-> NULL,
   last_reply |-> NoReply,
   last_report |-> 0,
   snapshot |-> FALSE,
   late_sends |-> 0,
   late_pings |-> 0,
   fired |-> {},
   lat_min |-> [h \in 1 .. c.num_hosts |-> -1],
   lat_max |-> [h \in 1 .. c.num_hosts |-> -1],
   cancelled |-> FALSE,
   slot_clash |-> FALSE]

InitWith(C) ==
  /\ cfg \in C
  /\ pc = IF cfg.num_hosts = 0 THEN "nohosts" ELSE "loop"
  /\ current_time_ns = StartTime
  /\ last_send_time = 0
  /\ next_report_time = IF cfg.report_interval # 0 THEN StartTime + cfg.report_interval
                         ELSE 0
  /\ wait_time_ns = 0
  /\ got_packet = FALSE
  /\ \E r0 \in [1 .. cfg.num_hosts -> {RESP_UNUSED, 0}] :
        hosts = [h \in 1 .. cfg.num_hosts |-> NewHost(cfg, r0[h])]
  /\ event_queue_ping = AddAddrs(EmptyQueue(cfg), cfg, 1)
  /\ event_queue_timeout = EmptyQueue(cfg)
  /\ seqmap = <<>>
  /\ counters = [num_alive |-> 0, num_unreachable |-> 0, num_timeout |-> 0,
                 num_pingsent |-> 0, num_pingreceived |-> 0]
  /\ finish_requested = FALSE
  /\ status_snapshot = FALSE
  /\ exit_status = -1
  /\ hist = InitHist(cfg)

Init == InitWith(Configs)

InitOneShot == InitWith(OneShotConfigs)

InitPeriodic == InitWith(CountConfigs \cup LoopConfigs)

InitExit == InitWith(ExitConfigs)

InitReport == InitWith(ReportConfigs)

InitReply == InitWith(ReplyConfigs)


\* ------------------------------------------------------------------ main
\* main(): if (!num_hosts) exit(num_noaddress ? 2 : 1), before the main loop
NoHostsStatus(num_noaddress) == IF num_noaddress # 0 THEN 2 ELSE 1

NoHosts ==
  /\ pc = "nohosts"
  /\ exit_status' = NoHostsStatus(cfg.num_noaddress)
  /\ pc' = "done"
  /\ UNCHANGED <<cfg, current_time_ns, last_send_time, next_report_time,
                 wait_time_ns, got_packet, hosts, event_queue_ping,
                 event_queue_timeout, seqmap, counters, finish_requested,
                 status_snapshot, hist>>

\* -------------------------------------------------------------- main_loop
StateRec == [hosts |-> hosts, tq |-> event_queue_timeout, seqmap |-> seqmap,
             counters |-> counters, hist |-> hist]

\* variant: a timeout event counts as due one tick before its time
TimeoutDueEarly ==
  /\ event_queue_timeout.first # NULL
  /\ event_queue_timeout.ev[event_queue_timeout.first].ev_time - current_time_ns <= 1

TimeoutDue ==
  /\ event_queue_timeout.first # NULL
  /\ event_queue_timeout.ev[event_queue_timeout.first].ev_time - current_time_ns <= 0

PingDue ==
  /\ event_queue_ping.first # NULL
  /\ event_queue_ping.ev[event_queue_ping.first].ev_time - current_time_ns <= 0

\* variant: a due ping event is looked at before the timeout queue
TimeoutBranchAfterPing == TimeoutDue /\ ~PingDue

\* main_loop(): the test of the "timeout event ?" branch, which ends in
\* continue; the "ping event ?" test is reached only when it is false
TimeoutBranch == TimeoutDue

\* "Make sure that we don't ping more than once every interval"
IntervalElapsed(now, last) == now - last >= cfg.interval

\* variant: the next ping event is due when the current one was
NextPingTimeSameDue(ev_time) == ev_time

\* variant: the next ping event is scheduled off the clock
NextPingTimeFromClock(ev_time) == current_time_ns + cfg.perhost_interval

\* the due time of the ping event scheduled after the one due at ev_time
NextPingTime(ev_time) == ev_time + cfg.perhost_interval

\* variant: the loop runs only while a ping event is queued
LoopRunsPingOnly == event_queue_ping.first # NULL

\* main_loop(): the while condition
LoopRuns == event_queue_ping.first # NULL \/ event_queue_timeout.first # NULL

\* main_loop(): "timeout event ?" branch, including the retry of one-shot
\* mode, up to the continue
TimeoutEvent ==
  /\ pc = "loop" /\ LoopRuns /\ TimeoutBranch
  /\ LET e == event_queue_timeout.first
         h == e.h
         index == event_queue_timeout.ev[e].ping_index
         tq1 == ev_dequeue(event_queue_timeout)
         hr1 == stats_add(hosts[h], index, FALSE, -1)
         hist1 == [hist EXCEPT !.timeouts[h] = @ + 1, !.consec[h] = @ + 1,
                               !.fired = IF count_flag THEN @ \cup {<<h, index>>} ELSE @,
                               !.last_accept = NULL, !.last_reply = NoReply, !.last_report = 0,
                    !.snapshot = FALSE]
         cnt1 == [counters EXCEPT !.num_timeout = @ + 1]
     IN /\ hosts[h].num_sent < MaxCount
        /\ IF NeedRetry(hr1)
           THEN \E now \in ClockReads(current_time_ns), ok \in SendResults :
                  LET hr2 == IF cfg.backoff_flag
                             THEN [hr1 EXCEPT !.timeout = BackoffStep(@)] ELSE hr1
                      r == send_ping([hosts |-> [hosts EXCEPT ![h] = hr2], tq |-> tq1,
                                      seqmap |-> seqmap, counters |-> cnt1,
                                      hist |-> hist1], h, index, now, ok)
                  IN /\ hosts' = r.hosts
                     /\ event_queue_timeout' = r.tq
                     /\ seqmap' = r.seqmap
                     /\ counters' = r.counters
                     /\ hist' = r.hist
                     /\ last_send_time' = r.last_send_time
                     /\ current_time_ns' = now
                     /\ pc' = IF r.tq.hung THEN "hang" ELSE "loop"
           ELSE /\ hosts' = [hosts EXCEPT ![h] = hr1]
                /\ event_queue_timeout' = tq1
                /\ counters' = cnt1
                /\ hist' = hist1
                /\ pc' = "loop"
                /\ UNCHANGED <<seqmap, last_send_time, current_time_ns>>
  /\ UNCHANGED <<cfg, next_report_time, wait_time_ns, got_packet,
                 event_queue_ping, finish_requested, status_snapshot, exit_status>>

\* variant: only count mode schedules the next ping
ScheduleNextCountOnly(index) == count_flag /\ index + 1 < cfg.count

\* main_loop(): "Loop and count mode: schedule next ping"
ScheduleNext(index) == loop_flag \/ (count_flag /\ index + 1 < cfg.count)

\* main_loop(): "ping event ?" branch when the event is dequeued and sent
PingEvent ==
  /\ pc = "loop" /\ LoopRuns /\ ~TimeoutBranch /\ PingDue
  /\ IntervalElapsed(current_time_ns, last_send_time)
  /\ hist.attempts[event_queue_ping.first.h] < MaxCount
  /\ LET e == event_queue_ping.first
         h == e.h
         index == event_queue_ping.ev[e].ping_index
         ev_time == event_queue_ping.ev[e].ev_time
         pq1 == ev_dequeue(event_queue_ping)
     IN \E now \in ClockReads(current_time_ns), ok \in SendResults :
          LET r == send_ping([StateRec EXCEPT !.hist.last_due[h] = ev_time],
                             h, index, now, ok)
              again == ScheduleNext(index)
              pq2 == IF again
                     THEN host_add_ping_event(pq1, h, index + 1, NextPingTime(ev_time))
                     ELSE pq1
          IN /\ hosts' = r.hosts
             /\ event_queue_timeout' = r.tq
             /\ seqmap' = r.seqmap
             /\ counters' = r.counters
             /\ hist' = [r.hist EXCEPT !.slot_clash =
                           @ \/ (again /\ [h |-> h, s |-> (index + 1) % event_storage_count]
                                            \in Linked(pq1)),
                                       !.late_pings = IF finish_requested THEN @ + 1 ELSE @]
             /\ last_send_time' = r.last_send_time
             /\ current_time_ns' = now
             /\ event_queue_ping' = pq2
             /\ pc' = IF r.tq.hung \/ pq2.hung THEN "hang" ELSE "wait"
  /\ UNCHANGED <<cfg, next_report_time, wait_time_ns, got_packet,
                 finish_requested, status_snapshot, exit_status>>

\* main_loop(): no timeout is due and no ping is sent in this iteration
\* (none is due, or the global interval has not elapsed: goto wait_for_reply)
NoEvent ==
  /\ pc = "loop" /\ LoopRuns /\ ~TimeoutBranch
  /\ ~(PingDue /\ IntervalElapsed(current_time_ns, last_send_time))
  /\ pc' = "wait"
  /\ hist' = [hist EXCEPT !.last_accept = NULL, !.last_reply = NoReply, !.last_report = 0,
                    !.snapshot = FALSE]
  /\ UNCHANGED <<cfg, current_time_ns, last_send_time, next_report_time,
                 wait_time_ns, got_packet, hosts, event_queue_ping,
                 event_queue_timeout, seqmap, counters, finish_requested,
                 status_snapshot, exit_status>>

\* main_loop(): the while condition is false
LoopExit ==
  /\ pc = "loop" /\ ~LoopRuns
  /\ pc' = "finish"
  /\ hist' = [hist EXCEPT !.last_accept = NULL, !.last_reply = NoReply, !.last_report = 0,
                    !.snapshot = FALSE]
  /\ UNCHANGED <<cfg, current_time_ns, last_send_time, next_report_time,
                 wait_time_ns, got_packet, hosts, event_queue_ping,
                 event_queue_timeout, seqmap, counters, finish_requested,
                 status_snapshot, exit_status>>

Clamp0(w) == IF w < 0 THEN 0 ELSE w

\* main_loop(): wait_time_ns as computed after the wait_for_reply label
WaitPing ==
  IF event_queue_ping.first = NULL THEN -1
  ELSE LET w == Clamp0(event_queue_ping.ev[event_queue_ping.first].ev_time - current_time_ns)
           lt == current_time_ns - last_send_time
       IN IF w < cfg.interval /\ lt < cfg.interval THEN cfg.interval - lt ELSE w

\* variant: the timeout queue is looked at only when no ping event is queued
WaitTimeoutIdleOnly(w) ==
  IF event_queue_timeout.first = NULL THEN w
  ELSE LET wt == event_queue_timeout.ev[event_queue_timeout.first].ev_time - current_time_ns
       IN IF w < 0 THEN Clamp0(wt) ELSE w

WaitTimeout(w) ==
  IF event_queue_timeout.first = NULL THEN w
  ELSE LET wt == event_queue_timeout.ev[event_queue_timeout.first].ev_time - current_time_ns
       IN IF w < 0 \/ wt < w THEN Clamp0(wt) ELSE w

WaitReport(w) ==
  IF cfg.report_interval # 0 /\ (loop_flag \/ count_flag)
  THEN LET wr == next_report_time - current_time_ns
       IN IF wr < w THEN Clamp0(wr) ELSE w
  ELSE w

WaitTime == WaitReport(WaitTimeout(WaitPing))

\* variant: the interrupt flag is not looked at
LoopBreaksIdleOnly(w) == w = -1

\* variant: the interrupt flag ends the loop only when no ping is queued
LoopBreaksNoPingLeft(w) ==
  w = -1 \/ (finish_requested /\ event_queue_ping.first = NULL)

\* main_loop(): the two breaks, "waiting for nothing" and "end of loop was
\* requested by interrupt signal handler"
LoopBreaks(w) == w = -1 \/ finish_requested

\* main_loop(): from the wait_for_reply label to the first receive
ComputeWait ==
  /\ pc = "wait"
  /\ wait_time_ns' = WaitTime
  /\ pc' = IF LoopBreaks(WaitTime) THEN "finish" ELSE "recv"
  /\ got_packet' = FALSE
  /\ UNCHANGED <<cfg, current_time_ns, last_send_time, next_report_time,
                 hosts, event_queue_ping, event_queue_timeout, seqmap,
                 counters, finish_requested, status_snapshot, exit_status, hist>>


\* --------------------------------------------------------- wait_for_reply
\* clock reads possible inside one call of wait_for_reply that returns a
\* packet: the first call of an iteration may sleep up to wait_time_ns
RecvClockReads ==
  { t \in current_time_ns .. StartTime + MaxTime :
      t <= current_time_ns + (IF got_packet THEN 0 ELSE wait_time_ns) + MaxJump }

\* receive time of a packet answering a probe sent at ping_ts, read at clock
\* now: the kernel timestamp when there is one, else now
RecvTimes(now, ping_ts) ==
  IF cfg.env_kernel_ts
  THEN { k \in 0 .. now : k >= ping_ts /\ k >= now - MaxJump }
  ELSE {now}

\* variant: replies are not counted before they are examined
CountReceivedNot(hr) == hr

\* wait_for_reply(): h->num_recv_total++, for every reply that matches a probe
CountReceived(hr) == [hr EXCEPT !.num_recv_total = @ + 1]

\* variant: no reply is taken for a duplicate
IsDuplicateNever(hr, this_count) == FALSE

\* wait_for_reply(): "discard duplicates"
IsDuplicate(hr, this_count) == ~loop_flag /\ hr.resp_times[this_count] >= 0

\* variant: a reply is late only when it exceeds the timeout by more than a tick
IsLateWithSlack(hr, this_reply) == this_reply > hr.timeout + 1

\* wait_for_reply(): "discard reply if delay is larger than timeout"
IsLate(hr, this_reply) == this_reply > hr.timeout

\* variant: every accepted reply counts its host alive
FirstReplyAny(num_recv) == num_recv >= 1

\* wait_for_reply(): if (h->num_recv == 1) num_alive++
FirstReply(num_recv) == num_recv = 1

\* variant: the run stops only when every target is alive
FastReachableStopAll(num_recv, alive) ==
  num_recv = 1 /\ cfg.fast_reachable /\ alive >= cfg.num_hosts

\* wait_for_reply(): the first reply of a host with --fast-reachable:
\* if (fast_reachable && num_alive >= min_reachable) finish_requested = 1
FastReachableStop(num_recv, alive) ==
  num_recv = 1 /\ cfg.fast_reachable /\ alive >= cfg.min_reachable

\* variant: the timeout is left as the backoff made it
ResetTimeoutKeeps(t) == t

\* wait_for_reply(): "initialize timeout to initial timeout (without backoff)"
ResetTimeout(t) == cfg.timeout

\* variant: the timeout event of an answered probe stays in the queue
CancelTimeoutSkipped(q, h, index) == q

\* wait_for_reply(): "remove timeout event"
CancelTimeout(q, h, index) == ev_remove(q, host_get_timeout_event(h, index))

\* wait_for_reply(): a packet that is dropped before the sequence map is
\* consulted (short packet, other ICMP type, wrong id, unknown family)
ReceiveJunk ==
  /\ pc = "recv" /\ cfg.env_junk
  /\ \E now \in RecvClockReads : current_time_ns' = now
  /\ got_packet' = TRUE
  /\ hist' = [hist EXCEPT !.last_accept = NULL, !.last_reply = NoReply, !.last_report = 0,
                    !.snapshot = FALSE]
  /\ UNCHANGED <<cfg, pc, last_send_time, next_report_time, wait_time_ns,
                 hosts, event_queue_ping, event_queue_timeout, seqmap,
                 counters, finish_requested, status_snapshot, exit_status>>

\* wait_for_reply(): an echo reply carrying our id and the sequence number
\* seq; the network answers only probes that went out
ReceiveReply ==
  /\ pc = "recv"
  /\ \E seq \in { n \in 1 .. Len(seqmap) : hist.on_wire[n] }, now \in RecvClockReads,
        src_ok \in (IF cfg.check_source_flag THEN BOOLEAN ELSE {TRUE}) :
       \E recv_time \in RecvTimes(now, seqmap[seq].ping_ts) :
        LET h == seqmap[seq].host_nr
            this_count == seqmap[seq].ping_count
            this_reply == recv_time - seqmap[seq].ping_ts
            hist1 == [hist EXCEPT !.last_accept = NULL, !.last_reply = NoReply, !.last_report = 0,
                    !.snapshot = FALSE]
            hist2 == [hist1 EXCEPT !.last_reply =
                        [h |-> h, index |-> this_count, rtt |-> this_reply,
                         timeout |-> hosts[h].timeout, accepted |-> FALSE,
                         src_ok |-> src_ok]]
            hr1 == CountReceived(hosts[h])
            cnt1 == [counters EXCEPT !.num_pingreceived = @ + 1]
        IN /\ current_time_ns' = now
           /\ got_packet' = TRUE
           /\ IF ~seqmap_present(seqmap, seq, now)
              THEN /\ hist' = hist1
                   /\ UNCHANGED <<hosts, counters, event_queue_timeout, finish_requested>>
              ELSE IF \/ (cfg.check_source_flag /\ ~src_ok)
                      \/ IsDuplicate(hr1, this_count)
                      \/ IsLate(hr1, this_reply)
              THEN /\ hosts[h].num_recv_total < MaxReplies
                   /\ hist' = hist2
                   /\ hosts' = [hosts EXCEPT ![h] = hr1]
                   /\ counters' = cnt1
                   /\ UNCHANGED <<event_queue_timeout, finish_requested>>
              ELSE LET hr2 == stats_add(hr1, this_count, TRUE, this_reply)
                       hr3 == [hr2 EXCEPT !.timeout = ResetTimeout(@)]
                       alive == IF FirstReply(hr3.num_recv) THEN counters.num_alive + 1
                                ELSE counters.num_alive
                   IN /\ hosts[h].num_recv_total < MaxReplies
                      /\ hr1.num_sent < MaxCount
                      /\ hosts' = [hosts EXCEPT ![h] = hr3]
                      /\ event_queue_timeout' = CancelTimeout(event_queue_timeout, h, this_count)
                      /\ counters' = [cnt1 EXCEPT !.num_alive = alive]
                      /\ finish_requested' =
                           (finish_requested \/ FastReachableStop(hr3.num_recv, alive))
                      /\ hist' = [hist2 EXCEPT !.credits[seq] = @ + 1, !.consec[h] = 0,
                                               !.last_reply.accepted = TRUE,
                                               !.lat_min[h] = IF @ = -1 \/ this_reply < @
                                                              THEN this_reply ELSE @,
                                               !.lat_max[h] = IF @ = -1 \/ this_reply > @
                                                              THEN this_reply ELSE @,
                                               !.last_accept = [h |-> h, s |-> this_count],
                                               !.cancelled =
                                                 host_get_timeout_event(h, this_count)
                                                   \in Linked(event_queue_timeout)]
  /\ UNCHANGED <<cfg, pc, last_send_time, next_report_time, wait_time_ns,
                 event_queue_ping, seqmap, status_snapshot, exit_status>>

\* print_per_system_splits(), second half of the loop over the hosts
SplitsReset(hs) ==
  IF cfg.cumulative_stats_flag THEN hs
  ELSE [h \in DOMAIN hs |-> stats_reset_interval(hs[h])]

\* print_netdata(), end of the loop over the hosts
NetdataReset(hs) == [h \in DOMAIN hs |-> stats_reset_interval(hs[h])]

ReportDue(now) ==
  cfg.report_interval # 0 /\ (loop_flag \/ count_flag) /\ now >= next_report_time

\* variant: the next report time is advanced by one interval only
AdvanceReportOnce(now, nrt) == nrt + cfg.report_interval

\* main_loop(): while (current_time_ns >= next_report_time) next_report_time += report_interval
RECURSIVE AdvanceReport(_, _)
AdvanceReport(now, nrt) ==
  IF now >= nrt THEN AdvanceReport(now, nrt + cfg.report_interval) ELSE nrt

\* main_loop(): wait_for_reply returned 0; update_current_time(), the
\* status snapshot and the periodic report, to the end of the iteration
EndReceive ==
  /\ pc = "recv"
  /\ \E t1 \in ClockReads(current_time_ns + (IF got_packet THEN 0 ELSE wait_time_ns)) :
     \E t2 \in (IF status_snapshot THEN ClockReads(t1) ELSE {t1}) :
     \E t3 \in (IF ReportDue(t2) /\ ~cfg.netdata_flag THEN ClockReads(t2) ELSE {t2}) :
       LET hs1 == IF status_snapshot THEN SplitsReset(hosts) ELSE hosts
           hs2 == IF ReportDue(t2)
                  THEN (IF cfg.netdata_flag THEN NetdataReset(hs1) ELSE SplitsReset(hs1))
                  ELSE hs1
       IN /\ current_time_ns' = t3
          /\ hosts' = hs2
          /\ next_report_time' = IF ReportDue(t2) THEN AdvanceReport(t3, next_report_time)
                                 ELSE next_report_time
          /\ hist' = [hist EXCEPT !.last_accept = NULL, !.last_reply = NoReply,
                                  !.last_report = IF ReportDue(t2) THEN next_report_time
                                                  ELSE 0,
                                  !.snapshot = status_snapshot]
  /\ status_snapshot' = FALSE
  /\ pc' = "loop"
  /\ UNCHANGED <<cfg, last_send_time, wait_time_ns, got_packet,
                 event_queue_ping, event_queue_timeout, seqmap, counters,
                 finish_requested, exit_status>>

\* ----------------------------------------------------------------- finish
\* variant: unresolved names are looked at before the --reachable threshold
ExitStatusNoAddressFirst(num_hosts, num_unreachable, num_alive, num_noaddress, min_reachable) ==
  IF num_noaddress # 0 THEN 2
  ELSE IF min_reachable # 0
  THEN (IF num_hosts - num_unreachable >= min_reachable THEN 0 ELSE 1)
  ELSE IF num_alive # num_hosts THEN 1
  ELSE 0

\* finish(): the exit status from the counters
ExitStatus(num_hosts, num_unreachable, num_alive, num_noaddress, min_reachable) ==
  IF min_reachable # 0
  THEN (IF num_hosts - num_unreachable >= min_reachable THEN 0 ELSE 1)
  ELSE IF num_noaddress # 0 THEN 2
  ELSE IF num_alive # num_hosts THEN 1
  ELSE 0

Unreachable == { h \in Hosts : hosts[h].num_recv = 0 }

Finish ==
  /\ pc = "finish"
  /\ \E now \in ClockReads(current_time_ns) : current_time_ns' = now
  /\ counters' = [counters EXCEPT !.num_unreachable = @ + Cardinality(Unreachable)]
  /\ exit_status' = ExitStatus(cfg.num_hosts,
                               counters.num_unreachable + Cardinality(Unreachable),
                               counters.num_alive, cfg.num_noaddress, cfg.min_reachable)
  /\ pc' = "done"
  /\ UNCHANGED <<cfg, last_send_time, next_report_time, wait_time_ns, got_packet,
                 hosts, event_queue_ping, event_queue_timeout, seqmap,
                 finish_requested, status_snapshot, hist>>

\* ---------------------------------------------------------------- signals
Running == pc \in {"loop", "wait", "recv"}

\* signal_handler(SIGINT)
SigInt ==
  /\ Running /\ cfg.env_sigint /\ ~finish_requested
  /\ finish_requested' = TRUE
  /\ UNCHANGED <<cfg, pc, current_time_ns, last_send_time, next_report_time,
                 wait_time_ns, got_packet, hosts, event_queue_ping,
                 event_queue_timeout, seqmap, counters, status_snapshot,
                 exit_status, hist>>

\* variant: SIGQUIT also asks the loop to end
SigQuitAlsoFinishes ==
  /\ Running /\ cfg.env_sigquit /\ ~status_snapshot
  /\ status_snapshot' = TRUE
  /\ finish_requested' = TRUE
  /\ UNCHANGED <<cfg, pc, current_time_ns, last_send_time, next_report_time,
                 wait_time_ns, got_packet, hosts, event_queue_ping,
                 event_queue_timeout, seqmap, counters, exit_status, hist>>

\* signal_handler(SIGQUIT)
SigQuit ==
  /\ Running /\ cfg.env_sigquit /\ ~status_snapshot
  /\ status_snapshot' = TRUE
  /\ UNCHANGED <<cfg, pc, current_time_ns, last_send_time, next_report_time,
                 wait_time_ns, got_packet, hosts, event_queue_ping,
                 event_queue_timeout, seqmap, counters, finish_requested,
                 exit_status, hist>>

Next ==
  \/ NoHosts
  \/ TimeoutEvent
  \/ PingEvent
  \/ NoEvent
  \/ LoopExit
  \/ ComputeWait
  \/ ReceiveJunk
  \/ ReceiveReply
  \/ EndReceive
  \/ Finish
  \/ SigInt
  \/ SigQuit

Spec == Init /\ [][Next]_vars

SpecOneShot == InitOneShot /\ [][Next]_vars

SpecPeriodic == InitPeriodic /\ [][Next]_vars

SpecExit == InitExit /\ [][Next]_vars

SpecReport == InitReport /\ [][Next]_vars

SpecReply == InitReply /\ [][Next]_vars

InitWait == InitWith(WaitConfigs)

SpecWait == InitWait /\ [][Next]_vars

\* ---------------------------------------------------------------- progress
\* the steps of the program itself (the others are the network's and the
\* signals'): a process that is scheduled goes on executing
ProgramStep ==
  \/ NoHosts
  \/ TimeoutEvent
  \/ PingEvent
  \/ NoEvent
  \/ LoopExit
  \/ ComputeWait
  \/ EndReceive
  \/ Finish

FairProgram == WF_vars(ProgramStep)

\* the clock keeps advancing: a step that reads a later time is taken again
\* and again as long as such steps are possible
Tick == Next /\ current_time_ns' > current_time_ns

ClockAdvances == SF_vars(Tick)

\* the run has reached the end of the explored time window (the sleep of
\* wait_for_reply would end after it) or the explored number of probes
AtBound ==
  \/ /\ pc = "recv" /\ ~got_packet
     /\ current_time_ns + wait_time_ns > StartTime + MaxTime
  \/ /\ pc = "loop" /\ TimeoutDue
     /\ hosts[event_queue_timeout.first.h].num_sent >= MaxCount
  \/ /\ pc = "loop" /\ ~TimeoutDue /\ PingDue
     /\ hist.attempts[event_queue_ping.first.h] >= MaxCount

InitShutdown == InitWith(ShutdownConfigs)

SpecShutdown == InitShutdown /\ [][Next]_vars /\ FairProgram

InitTermination == InitWith(TerminationConfigs)

SpecTermination == InitTermination /\ [][Next]_vars /\ FairProgram /\ ClockAdvances

InitSnapshot == InitWith(SnapshotConfigs)

SpecSnapshot == InitSnapshot /\ [][Next]_vars /\ FairProgram

InitStop == InitWith(StopConfigs)

SpecStop == InitStop /\ [][Next]_vars

InitFastReach == InitWith(FastReachConfigs)

SpecFastReach == InitFastReach /\ [][Next]_vars /\ FairProgram


\* ------------------------------------------------------------- the queue
\* The event queue on its own: any sequence of host_add_ping_event (on a
\* slot that is not linked), ev_dequeue and ev_remove, with any due times.
\* Two hosts with two event slots each; the queue under test is
\* event_queue_ping, and hist.order lists the live events in the order
\* they were enqueued.
QueueCfg == CountCfg(2, 2, 1, 1, 1)

InitQueue ==
  /\ cfg = QueueCfg
  /\ pc = "queue"
  /\ current_time_ns = 0
  /\ last_send_time = 0
  /\ next_report_time = 0
  /\ wait_time_ns = 0
  /\ got_packet = FALSE
  /\ hosts = [h \in 1 .. cfg.num_hosts |-> NewHost(cfg, RESP_UNUSED)]
  /\ event_queue_ping = EmptyQueue(cfg)
  /\ event_queue_timeout = EmptyQueue(cfg)
  /\ seqmap = <<>>
  /\ counters = [num_alive |-> 0, num_unreachable |-> 0, num_timeout |-> 0,
                 num_pingsent |-> 0, num_pingreceived |-> 0]
  /\ finish_requested = FALSE
  /\ status_snapshot = FALSE
  /\ exit_status = -1
  /\ hist = [order |-> <<>>, op |-> "none", returned |-> NULL]

Without(sq, e) == SelectSeq(sq, LAMBDA x : x # e)

QueueUnchanged ==
  UNCHANGED <<cfg, pc, current_time_ns, last_send_time, next_report_time,
              wait_time_ns, got_packet, hosts, event_queue_timeout, seqmap,
              counters, finish_requested, status_snapshot, exit_status>>

\* host_add_ping_event(h, index, ev_time) on a slot that is not linked
QEnqueue ==
  /\ pc = "queue"
  /\ \E h \in Hosts, index \in 0 .. MaxIndex, t \in 0 .. MaxEvTime :
       LET e == [h |-> h, s |-> index % event_storage_count] IN
         /\ e \notin Linked(event_queue_ping)
         /\ event_queue_ping' = host_add_ping_event(event_queue_ping, h, index, t)
         /\ hist' = [order |-> Append(hist.order, e), op |-> "enqueue", returned |-> NULL]
  /\ QueueUnchanged

\* ev_dequeue(queue): NULL when the queue is empty, else the first event,
\* which is removed
QDequeue ==
  /\ pc = "queue"
  /\ event_queue_ping' = IF event_queue_ping.first = NULL THEN event_queue_ping
                          ELSE ev_dequeue(event_queue_ping)
  /\ hist' = [order |-> Without(hist.order, event_queue_ping.first),
              op |-> "dequeue", returned |-> event_queue_ping.first]
  /\ QueueUnchanged

\* ev_remove(queue, event) on any slot, linked or not
QRemove ==
  /\ pc = "queue"
  /\ \E e \in DOMAIN event_queue_ping.ev :
       /\ event_queue_ping' = ev_remove(event_queue_ping, e)
       /\ hist' = [order |-> Without(hist.order, e), op |-> "remove", returned |-> NULL]
  /\ QueueUnchanged

NextQueue ==
  \/ QEnqueue
  \/ QDequeue
  \/ QRemove

SpecQueue == InitQueue /\ [][NextQueue]_vars

\* the events met when walking ev_next from e, in order (at most fuel of them)
RECURSIVE WalkNext(_, _, _)
WalkNext(q, e, fuel) ==
  IF e = NULL \/ fuel = 0 THEN <<>>
  ELSE <<e>> \o WalkNext(q, q.ev[e].ev_next, fuel - 1)

\* the events met when walking ev_prev from e, in order (at most fuel of them)
RECURSIVE WalkPrev(_, _, _)
WalkPrev(q, e, fuel) ==
  IF e = NULL \/ fuel = 0 THEN <<>>
  ELSE <<e>> \o WalkPrev(q, q.ev[e].ev_prev, fuel - 1)

\* ================================================================ claims

\* C1: for any two consecutive probe transmissions, whatever the hosts and the
\* mode, the send timestamps recorded in last_send_time differ by at least
\* interval.
GlobalPacing ==
  [][(counters'.num_pingsent = counters.num_pingsent + 1 /\ counters.num_pingsent >= 1)
       => last_send_time' - last_send_time >= cfg.interval]_vars

\* C2: in loop and count modes, two consecutive probes to one host are sent
\* at least perhost_interval apart.
PerHostPacing ==
  [][\A h \in Hosts :
       ((loop_flag \/ count_flag) /\ hist'.attempts[h] = hist.attempts[h] + 1
          /\ hist.attempts[h] >= 1)
       => hosts'[h].last_send_time - hosts[h].last_send_time >= cfg.perhost_interval]_vars

\* C2 (amended): in loop and count modes, a probe to a host is sent no earlier
\* than perhost_interval after the due time of the host's previous ping event.
PerHostCadence ==
  [][\A h \in Hosts :
       ((loop_flag \/ count_flag) /\ hist'.attempts[h] = hist.attempts[h] + 1
          /\ hist.attempts[h] >= 1)
       => hosts'[h].last_send_time >= hist.last_due[h] + cfg.perhost_interval]_vars

\* a second or later probe of a host has been sent, later than it was due
PerHostCadenceWitness ==
  \E h \in Hosts : /\ loop_flag \/ count_flag
                   /\ hist.attempts[h] >= 2
                   /\ hosts[h].last_send_time > hist.last_due[h]

\* C3: no probe has more than one reply credited in num_recv.
UniqueCredit == \A s \in 1 .. Len(hist.credits) : hist.credits[s] <= 1

\* C4: when the main loop has terminated, num_sent = num_recv + timeouts +
\* send errors for every host.
Conservation ==
  pc = "done" =>
    \A h \in Hosts :
      hosts[h].num_sent = hosts[h].num_recv + hist.timeouts[h] + hist.errors[h]

\* the run has ended and a host has had both a timeout and a failed send
ConservationWitness ==
  /\ pc = "done"
  /\ \E h \in Hosts : hist.timeouts[h] >= 1 /\ hist.errors[h] >= 1


\* C5: immediately after wait_for_reply accepts a reply for (host,
\* ping_index), no event carrying that host and that ping_index is linked in
\* the timeout queue.
TimeoutCancelled ==
  hist.last_accept # NULL =>
    ~ \E e \in Linked(event_queue_timeout) :
        /\ e.h = hist.last_accept.h
        /\ event_queue_timeout.ev[e].ping_index = hist.last_accept.s

\* a reply has just been accepted while its timeout event was still linked
TimeoutCancelledWitness == hist.last_accept # NULL /\ hist.cancelled

\* C5, as long as no event was enqueued into a linked slot (C6): the accepted
\* reply's timeout event is unlinked.
NoClashCancelled == ~hist.slot_clash => TimeoutCancelled

\* C6: an event is never enqueued into a slot that is still linked in its
\* queue.
SlotSafety == ~hist.slot_clash

\* C7: the exit status is 0/1 by the number of hosts that replied when
\* --reachable/--fast-reachable is set; else 2 when a name did not resolve;
\* else 0 iff every host replied, 1 otherwise.
Replied == { h \in Hosts : hosts[h].num_recv >= 1 }

ExitStatusLaw ==
  pc = "done" =>
    exit_status =
      IF cfg.min_reachable # 0
      THEN (IF Cardinality(Replied) >= cfg.min_reachable THEN 0 ELSE 1)
      ELSE IF cfg.num_noaddress > 0 THEN 2
      ELSE IF Replied = Hosts THEN 0 ELSE 1

\* C7 (amended): the same law for every run with at least one target; a run
\* without targets ends with status 2 when a name did not resolve and 1
\* otherwise, whatever --reachable says.
ExitStatusLawAmended ==
  pc = "done" =>
    exit_status =
      IF cfg.num_hosts = 0 THEN (IF cfg.num_noaddress > 0 THEN 2 ELSE 1)
      ELSE IF cfg.min_reachable # 0
      THEN (IF Cardinality(Replied) >= cfg.min_reachable THEN 0 ELSE 1)
      ELSE IF cfg.num_noaddress > 0 THEN 2
      ELSE IF Replied = Hosts THEN 0 ELSE 1

\* the run ended with status 0 although a host is unreachable and a name did
\* not resolve: the --reachable threshold was met
ExitStatusWitness ==
  /\ pc = "done" /\ exit_status = 0
  /\ cfg.min_reachable = 1 /\ cfg.num_noaddress = 1
  /\ Replied # Hosts

\* C8: in one-shot mode, when the main loop has run to its end, a host that
\* never replied and whose sends all succeeded was sent retry+1 probes and
\* has retry+1 timeouts (num_sent = retry+1, num_recv = 0); it is unreachable
\* and the exit status is 1.
RetryCountAlways ==
  (pc = "done" /\ cfg.mode = "oneshot" /\ ~finish_requested) =>
    \A h \in Hosts :
      (hosts[h].num_recv_total = 0 /\ hist.errors[h] = 0) =>
        /\ hist.attempts[h] = cfg.retry + 1
        /\ hist.timeouts[h] = cfg.retry + 1
        /\ hosts[h].num_sent = cfg.retry + 1
        /\ hosts[h].num_recv = 0
        /\ counters.num_unreachable >= 1
        /\ exit_status = 1

\* C8 (amended): the same counts, when the loop has ended without a shutdown
\* request (no SIGINT, no --fast-reachable stop); the exit status is 1
\* provided neither --reachable is set nor a name failed to resolve.
RetryCount ==
  (pc = "done" /\ cfg.mode = "oneshot" /\ ~finish_requested) =>
    \A h \in Hosts :
      (hosts[h].num_recv_total = 0 /\ hist.errors[h] = 0) =>
        /\ hist.attempts[h] = cfg.retry + 1
        /\ hist.timeouts[h] = cfg.retry + 1
        /\ hosts[h].num_sent = cfg.retry + 1
        /\ hosts[h].num_recv = 0
        /\ counters.num_unreachable >= 1
        /\ (cfg.min_reachable = 0 /\ cfg.num_noaddress = 0) => exit_status = 1

\* a one-shot run with retries has ended normally with a silent host
RetryCountWitness ==
  /\ pc = "done" /\ cfg.mode = "oneshot" /\ ~finish_requested /\ cfg.retry >= 2
  /\ \E h \in Hosts : /\ hosts[h].num_recv_total = 0 /\ hist.errors[h] = 0
                      /\ hist.timeouts[h] = cfg.retry + 1

\* C9: in count mode, when the loop has ended without a shutdown request,
\* every host has had exactly count probes attempted and num_sent = count.
CountTotals ==
  (pc = "done" /\ count_flag /\ ~finish_requested) =>
    \A h \in Hosts : hist.attempts[h] = cfg.count /\ hosts[h].num_sent = cfg.count

\* C10: in one-shot mode with backoff, after k consecutive timeouts of a host
\* host.timeout = timeout * backoff^k, for every k from 1 to retry+1.
RECURSIVE Pow(_, _)
Pow(b, k) == IF k = 0 THEN 1 ELSE b * Pow(b, k - 1)

RECURSIVE TruncatedBackoff(_, _)
TruncatedBackoff(t, k) ==
  IF k = 0 THEN t
  ELSE (TruncatedBackoff(t, k - 1) * cfg.backoff[1]) \div cfg.backoff[2]

LateRejected ==
  [][counters'.num_pingreceived # counters.num_pingreceived =>
       LET r == hist'.last_reply IN
         /\ r.h \in Hosts
         /\ (hosts'[r.h].num_recv # hosts[r.h].num_recv => r.rtt <= r.timeout)
         /\ (r.rtt > r.timeout =>
               /\ hosts'[r.h].num_recv = hosts[r.h].num_recv
               /\ counters'.num_alive = counters.num_alive
               /\ event_queue_timeout' = event_queue_timeout)]_vars

\* a late reply was just rejected while the timeout event of its probe is
\* still linked
LateRejectedWitness ==
  LET r == hist.last_reply
      e == host_get_timeout_event(r.h, r.index)
  IN /\ r.h # 0 /\ r.rtt > r.timeout /\ ~r.accepted
     /\ e \in Linked(event_queue_timeout)
     /\ event_queue_timeout.ev[e].ping_index = r.index
     /\ hosts[r.h].num_recv = 0

\* C12: reply after timeout.  In count mode, in every step that handles a
\* matched reply for a probe (host, ping_index) whose timeout event has
\* already been processed, the reply is not accepted: num_recv, num_alive and
\* resp_times[ping_index] are unchanged.
ReplyAfterTimeout ==
  [][(count_flag /\ counters'.num_pingreceived # counters.num_pingreceived
        /\ <<hist'.last_reply.h, hist'.last_reply.index>> \in hist.fired) =>
       LET r == hist'.last_reply IN
         /\ hosts'[r.h].num_recv = hosts[r.h].num_recv
         /\ hosts'[r.h].resp_times[r.index] = hosts[r.h].resp_times[r.index]
         /\ counters'.num_alive = counters.num_alive]_vars

\* a reply for a probe that already timed out was just handled and rejected
ReplyAfterTimeoutWitness ==
  LET r == hist.last_reply
  IN count_flag /\ r.h # 0 /\ <<r.h, r.index>> \in hist.fired /\ ~r.accepted

\* C13: interval reset.  With periodic reports and without "cumulative", in
\* every step that emits an interval report (next_report_time moves on) every
\* host ends with num_sent_i = num_recv_i = 0 and interval min/max/total 0,
\* and all its other fields, the cumulative counters included, are unchanged.
IntervalReset ==
  [][(~cfg.cumulative_stats_flag /\ next_report_time' # next_report_time) =>
       \A h \in Hosts :
         /\ hosts'[h].num_sent_i = 0 /\ hosts'[h].num_recv_i = 0
         /\ hosts'[h].min_reply_i = 0 /\ hosts'[h].max_reply_i = 0
         /\ hosts'[h].total_time_i = 0
         /\ hosts'[h] = [hosts[h] EXCEPT !.num_sent_i = 0, !.num_recv_i = 0,
                                         !.min_reply_i = 0, !.max_reply_i = 0,
                                         !.total_time_i = 0]]_vars

\* an interval report has just cleared the interval counters of a host that
\* has sent and received (no SIGQUIT snapshot can have done it)
IntervalResetWitness ==
  /\ cfg.report_interval # 0 /\ ~cfg.cumulative_stats_flag /\ ~cfg.env_sigquit
  /\ pc = "loop" /\ next_report_time > StartTime + cfg.report_interval
  /\ \E h \in Hosts : /\ hosts[h].num_recv > 0 /\ hosts[h].total_time > 0
                       /\ hosts[h].num_sent_i = 0 /\ hosts[h].total_time_i = 0

\* C14: cumulative reports.  With -Q SECS,cumulative the interval counters
\* are never reset: every host has num_sent_i = num_sent and
\* num_recv_i = num_recv in every state.
CumulativeNoReset ==
  cfg.cumulative_stats_flag =>
    \A h \in Hosts : /\ hosts[h].num_sent_i = hosts[h].num_sent
                     /\ hosts[h].num_recv_i = hosts[h].num_recv

\* the same without -N: the split report and the SIGQUIT snapshot do not reset
CumulativeSplitsNoReset ==
  (cfg.cumulative_stats_flag /\ ~cfg.netdata_flag) =>
    \A h \in Hosts : /\ hosts[h].num_sent_i = hosts[h].num_sent
                     /\ hosts[h].num_recv_i = hosts[h].num_recv
                     /\ hosts[h].total_time_i = hosts[h].total_time

\* C15: resp_times accounting.  In count mode every host's resp_times has
\* length trials >= count, and whenever the host has been probed and has no
\* probe outstanding (no slot is WAITING) exactly num_sent of its slots hold
\* a value other than UNUSED.
RespTimesAccounting ==
  count_flag =>
    \A h \in Hosts :
      LET rt == hosts[h].resp_times IN
        /\ DOMAIN rt = 0 .. trials - 1
        /\ trials >= cfg.count
        /\ (hist.attempts[h] >= 1 /\ \A n \in DOMAIN rt : rt[n] # RESP_WAITING) =>
             Cardinality({ n \in DOMAIN rt : rt[n] # RESP_UNUSED }) = hosts[h].num_sent

\* the same with the probes attempted in place of num_sent
RespTimesAttempts ==
  count_flag =>
    \A h \in Hosts :
      LET rt == hosts[h].resp_times IN
        /\ DOMAIN rt = 0 .. trials - 1
        /\ trials >= cfg.count
        /\ hist.attempts[h] >= 1 =>
             Cardinality({ n \in DOMAIN rt : rt[n] # RESP_UNUSED }) = hist.attempts[h]

\* C16: fast-reachable.  With --fast-reachable=N: whenever num_alive >= N,
\* finish_requested is set; once it is set the main loop does not enter
\* another wait for replies; the loop exits (finish() is reached) although
\* probes are still outstanding; and the exit status is 0.
FastReachable ==
  /\ [](cfg.fast_reachable /\ counters.num_alive >= cfg.min_reachable => finish_requested)
  /\ [][cfg.fast_reachable /\ finish_requested /\ pc # "recv" => pc' # "recv"]_vars
  /\ [](cfg.fast_reachable /\ counters.num_alive >= cfg.min_reachable /\ pc = "done"
          => exit_status = 0)
  /\ ((cfg.fast_reachable /\ counters.num_alive >= cfg.min_reachable)
        ~> (pc = "done" \/ AtBound))

\* a --fast-reachable run has ended with status 0 while a probe to a host
\* that has not answered is still waiting for its timeout
FastReachableWitness ==
  /\ cfg.fast_reachable /\ ~cfg.env_sigint /\ pc = "done" /\ exit_status = 0
  /\ counters.num_alive = cfg.min_reachable
  /\ current_time_ns < StartTime + MaxTime
  /\ \E h \in Hosts : /\ hosts[h].num_recv = 0
                       /\ [h |-> h, s |-> 0] \in Linked(event_queue_timeout)

\* C17: graceful shutdown.  In every mode, once finish_requested is set
\* while the main loop is running, the loop does not enter another wait for
\* replies and finish() eventually runs, whatever is queued.
GracefulShutdown ==
  /\ [][finish_requested /\ pc # "recv" => pc' # "recv"]_vars
  /\ [](finish_requested => pc # "hang")
  /\ (finish_requested ~> (pc = "done" \/ AtBound))

\* a loop-mode run was ended by SIGINT with events still queued
GracefulShutdownWitness ==
  /\ loop_flag /\ cfg.env_sigint /\ finish_requested /\ pc = "done"
  /\ exit_status >= 0
  /\ event_queue_ping.first # NULL /\ event_queue_timeout.first # NULL
  /\ current_time_ns < StartTime + MaxTime

\* C18: termination.  In one-shot and count modes, if the clock keeps
\* advancing, finish() is eventually reached, and when the main loop was not
\* cut short by a shutdown request it has exited with the ping queue and the
\* timeout queue both empty.
Termination ==
  /\ [](~loop_flag /\ pc \in {"finish", "done"} /\ ~finish_requested =>
          event_queue_ping.first = NULL /\ event_queue_timeout.first = NULL)
  /\ [](~loop_flag => pc # "hang")
  /\ (~loop_flag => <>(pc = "done" \/ AtBound))

\* a count-mode run with a lost reply has ended by itself, before the end
\* of the explored clock window
TerminationWitness ==
  /\ count_flag /\ pc = "done" /\ ~finish_requested /\ ~cfg.env_sigint
  /\ event_queue_ping.first = NULL /\ event_queue_timeout.first = NULL
  /\ current_time_ns < StartTime + MaxTime
  /\ \E h \in Hosts : hist.timeouts[h] >= 1 /\ hosts[h].num_recv >= 1

\* C19: loop mode runs forever.  In loop mode the main loop has exited only
\* if finish_requested is set, and at every evaluation of the loop condition
\* each host has exactly one ping event linked in the ping queue.
LoopForever ==
  (loop_flag /\ cfg.num_hosts > 0) =>
    /\ (pc \in {"finish", "done"} => finish_requested)
    /\ (pc = "loop" =>
          \A h \in Hosts :
            Cardinality({ e \in Linked(event_queue_ping) : e.h = h }) = 1)

\* the loop condition is evaluated in loop mode after several probes, with
\* the queued ping event in the second slot of the host
LoopForeverWitness ==
  /\ loop_flag /\ pc = "loop" /\ ~finish_requested
  /\ \E h \in Hosts :
       /\ hist.attempts[h] >= 3 /\ hist.timeouts[h] >= 1
       /\ event_queue_ping.first = [h |-> h, s |-> 1]

\* C20: RTT statistics.  Whenever a host has num_recv >= 1,
\* min_reply <= total_time / num_recv <= max_reply, and min_reply and
\* max_reply are the minimum and the maximum of the latencies of the replies
\* accepted for the host.
RttStatistics ==
  \A h \in Hosts :
    hosts[h].num_recv >= 1 =>
      /\ hosts[h].min_reply * hosts[h].num_recv <= hosts[h].total_time
      /\ hosts[h].total_time <= hosts[h].max_reply * hosts[h].num_recv
      /\ hosts[h].min_reply = hist.lat_min[h]
      /\ hosts[h].max_reply = hist.lat_max[h]

\* the same for hosts all of whose accepted latencies are positive
RttStatisticsPositive ==
  \A h \in Hosts :
    (hosts[h].num_recv >= 1 /\ hist.lat_min[h] > 0) =>
      /\ hosts[h].min_reply * hosts[h].num_recv <= hosts[h].total_time
      /\ hosts[h].total_time <= hosts[h].max_reply * hosts[h].num_recv
      /\ hosts[h].min_reply = hist.lat_min[h]
      /\ hosts[h].max_reply = hist.lat_max[h]

\* C21: in every reachable state and for every host, num_recv <= num_sent + 1.
RecvBound == \A h \in Hosts : hosts[h].num_recv <= hosts[h].num_sent + 1

\* the stronger bound the code keeps: a reply is counted as sent in the same
\* call of stats_add that counts it as received
RecvNeverAhead == \A h \in Hosts : hosts[h].num_recv <= hosts[h].num_sent

\* every probe counted for a host was a reply, and there are two of them
RecvBoundWitness ==
  \E h \in Hosts : hosts[h].num_recv = hosts[h].num_sent /\ hosts[h].num_recv >= 2

\* C22: timeouts before pings.  In every step that dequeues a ping event and
\* sends its probe, no timeout event is due at the cached current time: the
\* first event of the timeout queue is not due, and neither is any other
\* event linked in it.
TimeoutsBeforePings ==
  [][(counters'.num_pingsent # counters.num_pingsent
        /\ counters'.num_timeout = counters.num_timeout) =>
       /\ ~TimeoutDue
       /\ \A e \in Linked(event_queue_timeout) :
            event_queue_timeout.ev[e].ev_time > current_time_ns]_vars

\* a probe was just sent after a timeout had been handled, while the timeout
\* event of another probe is still linked and not yet due
TimeoutsBeforePingsWitness ==
  /\ pc = "wait" /\ last_send_time = current_time_ns
  /\ counters.num_timeout >= 1 /\ counters.num_pingsent >= 2
  /\ Cardinality(Linked(event_queue_timeout)) >= 2

\* C23: event queue order.  After any sequence of enqueues (each on a slot
\* that is not linked), dequeues and removes: walking ev_next from first
\* meets exactly the live events, each once, in non-decreasing ev_time order
\* and, among events of equal ev_time, in the order they were enqueued;
\* walking ev_prev from last meets them in the opposite order; and ev_dequeue
\* returns the first of them, which is the earliest.
PosIn(sq, e) == CHOOSE i \in 1 .. Len(sq) : sq[i] = e

QueueSorted(q, order) ==
  LET w == WalkNext(q, q.first, Cardinality(DOMAIN q.ev) + 1)
      b == WalkPrev(q, q.last, Cardinality(DOMAIN q.ev) + 1)
  IN /\ ~q.hung
     /\ Len(w) = Len(order)
     /\ { w[i] : i \in 1 .. Len(w) } = { order[i] : i \in 1 .. Len(order) }
     /\ \A i \in 1 .. Len(w) - 1 :
          \/ q.ev[w[i]].ev_time < q.ev[w[i + 1]].ev_time
          \/ /\ q.ev[w[i]].ev_time = q.ev[w[i + 1]].ev_time
             /\ PosIn(order, w[i]) < PosIn(order, w[i + 1])
     /\ Len(b) = Len(w)
     /\ \A i \in 1 .. Len(w) : b[i] = w[Len(w) + 1 - i]

QueueOrder ==
  /\ [](pc = "queue" => QueueSorted(event_queue_ping, hist.order))
  /\ [][(pc = "queue" /\ hist'.op = "dequeue" /\ hist.order # <<>>) =>
          /\ hist'.returned \in { hist.order[i] : i \in 1 .. Len(hist.order) }
          /\ \A i \in 1 .. Len(hist.order) :
               LET o == hist.order[i] IN
                 o # hist'.returned =>
                   \/ event_queue_ping.ev[hist'.returned].ev_time
                        < event_queue_ping.ev[o].ev_time
                   \/ /\ event_queue_ping.ev[hist'.returned].ev_time
                          = event_queue_ping.ev[o].ev_time
                      /\ PosIn(hist.order, hist'.returned) < i]_vars

\* an event was just returned by ev_dequeue ahead of a live event of the same
\* due time that was enqueued after it, while an event enqueued first of
\* all, with a later due time, is still last in the queue
QueueOrderWitness ==
  /\ pc = "queue" /\ hist.op = "dequeue" /\ hist.returned # NULL
  /\ Len(hist.order) >= 2
  /\ event_queue_ping.first = hist.order[2]
  /\ event_queue_ping.last = hist.order[1]
  /\ event_queue_ping.ev[hist.returned].ev_time
       = event_queue_ping.ev[event_queue_ping.first].ev_time
  /\ event_queue_ping.ev[event_queue_ping.first].ev_time
       < event_queue_ping.ev[event_queue_ping.last].ev_time

\* C24: slot pool sizing.  At startup event_storage_count equals count in
\* count mode, max(1, ceil(timeout/perhost_interval) + 1) in loop mode, and 1
\* otherwise.
CeilDiv(a, b) == (a + b - 1) \div b

SlotPoolSizing ==
  event_storage_count =
    IF count_flag THEN cfg.count
    ELSE IF loop_flag
    THEN (IF CeilDiv(cfg.timeout, cfg.perhost_interval) + 1 > 1
          THEN CeilDiv(cfg.timeout, cfg.perhost_interval) + 1 ELSE 1)
    ELSE 1

\* the same where timeout is a multiple of perhost_interval or the mode is
\* not loop mode
SlotPoolSizingMultiples ==
  (~loop_flag \/ cfg.timeout % cfg.perhost_interval = 0) => SlotPoolSizing

\* C25: retry index.  In one-shot mode the probes sent to a host, the first
\* one and its retries, carry the ping indices 0, 1, 2, ... in the order they
\* are sent, and each uses its own resp_times slot: after k probes the slots
\* 0 .. k-1 are in use.
ProbesBefore(s) ==
  Cardinality({ n \in 1 .. s - 1 : seqmap[n].host_nr = seqmap[s].host_nr })

RetryIndex ==
  cfg.mode = "oneshot" =>
    /\ \A s \in 1 .. Len(hist.index_of) : hist.index_of[s] = ProbesBefore(s)
    /\ \A h \in Hosts :
         \A n \in 1 .. hist.attempts[h] - 1 : hosts[h].resp_times[n] # RESP_UNUSED

\* what the code does: every probe of one-shot mode carries ping index 0 and
\* only slot 0 of resp_times is ever written
RetryIndexZero ==
  cfg.mode = "oneshot" =>
    /\ \A s \in 1 .. Len(hist.index_of) : hist.index_of[s] = 0
    /\ \A h \in Hosts :
         \A n \in 1 .. trials - 1 : hosts[h].resp_times[n] = RESP_UNUSED

\* C26: send failure.  In every step in which a send to a host fails, the
\* host's num_sent and num_sent_i grow by exactly one for the failed probe
\* (and by one more when the step also records the timeout that led to the
\* retry), resp_times[ping_index] is ERROR outside loop mode, no event is
\* added to the timeout queue and the probe's slot is not written, and
\* num_pingsent and both last_send_time are updated to the clock read by
\* send_ping.  The probe is never counted as a timeout: no timeout event
\* handled later carries a failed probe's host and index, and a slot holding
\* ERROR never becomes TIMEOUT.
FailedProbes ==
  { <<seqmap[s].host_nr, hist.index_of[s]>> : s \in { n \in 1 .. Len(seqmap) : ~hist.on_wire[n] } }

SendFailure ==
  /\ [][\A h \in Hosts :
          hist'.errors[h] = hist.errors[h] + 1 =>
            LET dt == hist'.timeouts[h] - hist.timeouts[h]
                index == hist'.index_of[Len(hist'.index_of)]
                e == host_get_timeout_event(h, index)
            IN /\ hosts'[h].num_sent = hosts[h].num_sent + 1 + dt
               /\ hosts'[h].num_sent_i = hosts[h].num_sent_i + 1 + dt
               /\ hosts'[h].num_recv = hosts[h].num_recv
               /\ ~loop_flag => hosts'[h].resp_times[index] = RESP_ERROR
               /\ Linked(event_queue_timeout') \subseteq Linked(event_queue_timeout)
               /\ e \notin Linked(event_queue_timeout') \/
                    event_queue_timeout'.ev[e] = event_queue_timeout.ev[e]
               /\ counters'.num_pingsent = counters.num_pingsent + 1
               /\ last_send_time' = current_time_ns'
               /\ hosts'[h].last_send_time = current_time_ns']_vars
  /\ [][counters'.num_timeout # counters.num_timeout =>
          <<event_queue_timeout.first.h,
            event_queue_timeout.ev[event_queue_timeout.first].ping_index>>
            \notin FailedProbes]_vars
  /\ [][\A h \in Hosts : \A n \in DOMAIN hosts[h].resp_times :
          hosts[h].resp_times[n] = RESP_ERROR => hosts'[h].resp_times[n] # RESP_TIMEOUT]_vars

\* the retry of a one-shot host has just failed: the slot holds ERROR, the
\* host has a timeout and a failed send, and no timeout event is linked
SendFailureWitness ==
  /\ cfg.mode = "oneshot" /\ pc = "loop" /\ last_send_time = current_time_ns
  /\ event_queue_timeout.first = NULL
  /\ \E h \in Hosts : /\ hist.timeouts[h] = 1 /\ hist.errors[h] = 1
                       /\ hist.attempts[h] = 2 /\ hosts[h].num_sent = 2
                       /\ hosts[h].resp_times[0] = RESP_ERROR

\* C27: ping cadence.  In loop and count modes, once k ping events of a host
\* have been dispatched, exactly one ping event of the host is linked, with
\* index k and due time first_due + k * perhost_interval (in count mode only
\* while k < count; then none is linked), whenever the probes were sent; and
\* the step that dispatches the event with index k and due time d enqueues
\* the one with index k + 1 and due time d + perhost_interval.
PingEventsOf(h) == { e \in Linked(event_queue_ping) : e.h = h }

PingCadence ==
  /\ []((loop_flag \/ count_flag) =>
          \A h \in Hosts :
            IF loop_flag \/ hist.attempts[h] < cfg.count
            THEN /\ Cardinality(PingEventsOf(h)) = 1
                 /\ \A e \in PingEventsOf(h) :
                      /\ event_queue_ping.ev[e].ping_index = hist.attempts[h]
                      /\ event_queue_ping.ev[e].ev_time
                           = StartTime + hist.attempts[h] * cfg.perhost_interval
            ELSE PingEventsOf(h) = {})
  /\ [][\A h \in Hosts :
          ((loop_flag \/ count_flag) /\ hist'.attempts[h] # hist.attempts[h]) =>
            /\ event_queue_ping.first.h = h
            /\ hist'.index_of[Len(hist'.index_of)]
                 = event_queue_ping.ev[event_queue_ping.first].ping_index
            /\ (loop_flag \/ hist'.attempts[h] < cfg.count) =>
                 \E e \in PingEventsOf(h)' :
                   /\ event_queue_ping'.ev[e].ping_index
                        = event_queue_ping.ev[event_queue_ping.first].ping_index + 1
                   /\ event_queue_ping'.ev[e].ev_time
                        = event_queue_ping.ev[event_queue_ping.first].ev_time
                            + cfg.perhost_interval]_vars

\* the second probe of a host was sent after it was due, and the third ping
\* event is due less than perhost_interval after that send
PingCadenceWitness ==
  /\ loop_flag \/ count_flag
  /\ \E h \in Hosts :
       /\ hist.attempts[h] = 2
       /\ hosts[h].last_send_time > hist.last_due[h]
       /\ \E e \in PingEventsOf(h) :
            /\ event_queue_ping.ev[e].ping_index = 2
            /\ event_queue_ping.ev[e].ev_time
                 < hosts[h].last_send_time + cfg.perhost_interval

\* C28: backoff reset.  In every step in which wait_for_reply handles a
\* packet: if a reply is accepted for a host (its num_recv grows) the host's
\* timeout is the configured timeout afterwards; every other host, and every
\* host when the packet is dropped (not ours, unknown or expired sequence
\* number, wrong source, duplicate, late), keeps its timeout.
BackoffReset ==
  [][(pc = "recv" /\ pc' = "recv") =>
       \A h \in Hosts :
         IF hosts'[h].num_recv # hosts[h].num_recv
         THEN hosts'[h].timeout = cfg.timeout
         ELSE hosts'[h].timeout = hosts[h].timeout]_vars

\* a reply has just been accepted for a host whose timeout had been
\* multiplied by the backoff factor after a timeout
BackoffResetWitness ==
  LET r == hist.last_reply IN
    /\ r.h # 0 /\ r.accepted /\ cfg.backoff_flag
    /\ r.timeout > cfg.timeout
    /\ hosts[r.h].timeout = cfg.timeout
    /\ hist.timeouts[r.h] >= 1

\* a matched reply (late, or from the wrong source) has just been dropped
\* while the host's timeout was backed off, and the timeout is as it was
DroppedBackedOff ==
  LET r == hist.last_reply IN
    /\ r.h # 0 /\ ~r.accepted /\ r.timeout > cfg.timeout
    /\ hosts[r.h].timeout = r.timeout

\* C29: no early timeout.  In every step that records a timeout, the event
\* handled is due (its ev_time is not after the cached current time), a probe
\* with the event's host and ping index went out, and the cached current
\* time is at or after the send timestamp of the latest such probe plus the
\* host's timeout at the moment it was sent.
ProbesOf(h, index) ==
  { s \in 1 .. Len(seqmap) :
      seqmap[s].host_nr = h /\ hist.index_of[s] = index /\ hist.on_wire[s] }

LatestOf(S) == CHOOSE s \in S : \A t \in S : t <= s

NoEarlyTimeout ==
  [][counters'.num_timeout # counters.num_timeout =>
       LET e == event_queue_timeout.first
           index == event_queue_timeout.ev[e].ping_index
       IN /\ event_queue_timeout.ev[e].ev_time <= current_time_ns
          /\ ProbesOf(e.h, index) # {}
          /\ hist.deadline_of[LatestOf(ProbesOf(e.h, index))] <= current_time_ns]_vars

\* the timeout of a retry has just been recorded, exactly at its deadline,
\* which the backoff had moved further than the configured timeout
NoEarlyTimeoutWitness ==
  /\ cfg.mode = "oneshot" /\ cfg.backoff_flag /\ pc = "loop"
  /\ Len(hist.deadline_of) = 2 /\ counters.num_timeout = 2
  /\ hist.deadline_of[2] = current_time_ns
  /\ \E h \in Hosts : hosts[h].timeout > cfg.timeout /\ hist.timeouts[h] = 2

\* C30: one-shot mode stops probing live hosts.  In one-shot mode, once a
\* reply has been accepted for a host (num_recv >= 1), no timeout event and
\* no ping event of the host is linked, and no step sends it another probe.
StopsProbingLive ==
  /\ [](cfg.mode = "oneshot" =>
          \A h \in Hosts :
            hosts[h].num_recv >= 1 =>
              /\ \A e \in Linked(event_queue_timeout) : e.h # h
              /\ \A e \in Linked(event_queue_ping) : e.h # h)
  /\ [][cfg.mode = "oneshot" =>
          \A h \in Hosts :
            hosts[h].num_recv >= 1 =>
              /\ hist'.attempts[h] = hist.attempts[h]
              /\ hist'.timeouts[h] = hist.timeouts[h]]_vars

\* a one-shot run has ended by itself with a host that answered its first
\* retry and still had a retry left
StopsProbingLiveWitness ==
  /\ cfg.mode = "oneshot" /\ pc = "done" /\ ~finish_requested /\ cfg.retry = 2
  /\ \E h \in Hosts : /\ hosts[h].num_recv >= 1
                       /\ hist.timeouts[h] = 1 /\ hist.attempts[h] = 2

\* C31: dropped replies have no effect on the schedule.  In every step in
\* which wait_for_reply handles a packet: a matched reply that is dropped as
\* a duplicate, as late or as coming from the wrong source changes nothing of
\* its host but num_recv_total, nothing of the counters but
\* num_pingreceived, leaves the other hosts, both event queues, the sequence
\* map and finish_requested as they were; a packet that is not matched (wrong
\* id, unknown or expired sequence number) changes no host, no counter and no
\* queue.
DroppedReply(r) ==
  \/ cfg.check_source_flag /\ ~r.src_ok
  \/ ~loop_flag /\ hosts[r.h].resp_times[r.index] >= 0
  \/ r.rtt > hosts[r.h].timeout

DropsHaveNoEffect ==
  [][(pc = "recv" /\ pc' = "recv" /\ got_packet') =>
       IF counters'.num_pingreceived # counters.num_pingreceived
       THEN LET r == hist'.last_reply IN
              (r.h \in Hosts /\ DroppedReply(r)) =>
                /\ hosts' = [hosts EXCEPT ![r.h].num_recv_total = @ + 1]
                /\ counters' = [counters EXCEPT !.num_pingreceived = @ + 1]
                /\ event_queue_ping' = event_queue_ping
                /\ event_queue_timeout' = event_queue_timeout
                /\ seqmap' = seqmap
                /\ finish_requested' = finish_requested
       ELSE /\ hosts' = hosts
            /\ counters' = counters
            /\ event_queue_ping' = event_queue_ping
            /\ event_queue_timeout' = event_queue_timeout]_vars

\* a reply from the wrong source, in time and not a duplicate, has just been
\* dropped while the timeout event of its probe is linked
DropsHaveNoEffectWitness ==
  LET r == hist.last_reply IN
    /\ r.h # 0 /\ ~r.accepted /\ cfg.check_source_flag /\ ~r.src_ok
    /\ r.rtt <= r.timeout
    /\ hosts[r.h].resp_times[r.index] < 0
    /\ host_get_timeout_event(r.h, r.index) \in Linked(event_queue_timeout)
    /\ hosts[r.h].num_recv_total = 1 /\ hosts[r.h].num_recv = 0

\* C32: report schedule.  With periodic reports in loop or count mode, at the
\* end of every loop iteration a report is emitted iff the clock has reached
\* next_report_time; next_report_time is then advanced by the smallest
\* positive multiple of report_interval that makes it strictly greater than
\* current_time_ns, and is otherwise left alone, so it is always
\* start + n * report_interval with n >= 1, and after the iteration no report
\* is due any more.
ReportsActive == cfg.report_interval # 0 /\ (loop_flag \/ count_flag)

ReportSchedule ==
  /\ [](cfg.report_interval # 0 =>
          /\ next_report_time >= StartTime + cfg.report_interval
          /\ (next_report_time - StartTime) % cfg.report_interval = 0)
  /\ [][(ReportsActive /\ pc = "recv" /\ pc' = "loop") =>
          IF hist'.last_report # 0
          THEN /\ hist'.last_report = next_report_time
               /\ next_report_time' > current_time_ns'
               /\ next_report_time' - cfg.report_interval <= current_time_ns'
               /\ next_report_time' > next_report_time
          ELSE /\ next_report_time' = next_report_time
               /\ next_report_time' > current_time_ns']_vars
  /\ [][(pc = "recv" /\ pc' = "loop") \/ next_report_time' = next_report_time]_vars

\* one report has just been emitted after two or more intervals had elapsed
ReportScheduleWitness ==
  /\ ReportsActive /\ pc = "loop" /\ hist.last_report # 0
  /\ next_report_time >= hist.last_report + 2 * cfg.report_interval

\* C33: alive count.  In every reachable state num_alive is the number of
\* hosts with num_recv >= 1, hence at most num_hosts; num_unreachable is 0
\* until finish() has run, and then it is num_hosts - num_alive.
AliveCount ==
  /\ counters.num_alive = Cardinality(Replied)
  /\ counters.num_alive <= cfg.num_hosts
  /\ counters.num_unreachable =
       IF pc = "done" THEN cfg.num_hosts - counters.num_alive ELSE 0

\* a run with two targets has ended: one answered twice and is counted
\* alive once, the other never answered
AliveCountWitness ==
  /\ pc = "done" /\ cfg.num_hosts = 2
  /\ counters.num_alive = 1 /\ counters.num_unreachable = 1
  /\ \E h \in Hosts : hosts[h].num_recv = 2

\* the time left at the clock reading of the wait computation until t,
\* 0 when t is overdue
Remaining(t) == Clamp0(t - current_time_ns)

\* the budget handed to the receive primitive: wait_time_ns by the first
\* call of an iteration, 0 by the calls that drain the socket
WaitBudgetOf == IF got_packet THEN 0 ELSE wait_time_ns

\* the earliest of interval - (now - last_send_time), the linked timeout
\* events and, with reports active, next_report_time
HeldBackBudget ==
  LET S == {cfg.interval - (current_time_ns - last_send_time)}
           \cup { Remaining(event_queue_timeout.ev[e].ev_time) :
                    e \in Linked(event_queue_timeout) }
           \cup (IF ReportsActive THEN {Remaining(next_report_time)} ELSE {})
  IN CHOOSE m \in S : \A x \in S : m <= x

\* C34: wait budget.  Whenever the main loop is about to call the receive
\* primitive, the budget is >= 0, at most the time left until any linked
\* timeout event (0 if overdue) and, with reports active, at most the time
\* left until next_report_time (0 if overdue); on the first call of an
\* iteration with a ping due and the global interval not elapsed it is the
\* earliest of interval - (now - last_send_time), the timeouts and the report.
WaitBudget ==
  pc = "recv" =>
    /\ WaitBudgetOf >= 0
    /\ \A e \in Linked(event_queue_timeout) :
         WaitBudgetOf <= Remaining(event_queue_timeout.ev[e].ev_time)
    /\ ReportsActive => WaitBudgetOf <= Remaining(next_report_time)
    /\ (~got_packet /\ PingDue /\ ~IntervalElapsed(current_time_ns, last_send_time))
         => wait_time_ns = HeldBackBudget

\* first receive of an iteration: a ping is due and held back, a timeout
\* event is linked and reports are active, and the budget is the positive
\* rest of the global interval
WaitBudgetWitness ==
  /\ pc = "recv" /\ ~got_packet /\ ReportsActive
  /\ PingDue /\ ~IntervalElapsed(current_time_ns, last_send_time)
  /\ event_queue_timeout.first # NULL
  /\ wait_time_ns = cfg.interval - (current_time_ns - last_send_time)
  /\ wait_time_ns > 0

\* C35: SIGQUIT snapshot.  A step that sets status_snapshot changes nothing
\* else (in particular not finish_requested and not the position of the
\* loop); the flag is cleared only by the end of an iteration that prints
\* the snapshot; once the flag is set, the snapshot is printed unless the
\* loop exits first; finish_requested is never cleared.
SigQuitSnapshot ==
  /\ [][~status_snapshot /\ status_snapshot'
          => UNCHANGED <<cfg, pc, current_time_ns, last_send_time, next_report_time,
                         wait_time_ns, got_packet, hosts, event_queue_ping,
                         event_queue_timeout, seqmap, counters, finish_requested,
                         exit_status, hist>>]_vars
  /\ [][(~hist.snapshot /\ hist'.snapshot)
          <=> (status_snapshot /\ pc = "recv" /\ pc' = "loop")]_vars
  /\ [][(status_snapshot /\ ~status_snapshot')
          <=> (~hist.snapshot /\ hist'.snapshot)]_vars
  /\ [][finish_requested => finish_requested']_vars
  /\ (status_snapshot ~> (hist.snapshot \/ pc \in {"finish", "done"} \/ AtBound))

\* a loop-mode run has just printed a snapshot asked for by SIGQUIT and goes
\* on: the flag is clear, no shutdown was requested
SigQuitSnapshotWitness ==
  /\ loop_flag /\ hist.snapshot /\ ~status_snapshot /\ ~finish_requested
  /\ pc = "loop" /\ LoopRuns

\* the timeout events that a step of wait_for_reply takes out of the queue
UnlinkedByReply == Linked(event_queue_timeout) \ Linked(event_queue_timeout')

\* e was enqueued for the probe that the reply just accepted answers
MatchesReply(e) ==
  /\ hist'.last_reply.accepted
  /\ e.h = hist'.last_reply.h
  /\ event_queue_timeout.ev[e].ping_index = hist'.last_reply.index

\* C36: cancellation touches only the matching probe.  A step of
\* wait_for_reply unlinks no timeout event other than the one enqueued for
\* the host and ping_index of the reply it accepts.
CancelOnlyMatching ==
  [][pc = "recv" /\ pc' = "recv" => \A e \in UnlinkedByReply : MatchesReply(e)]_vars

\* what the code guarantees: the event unlinked is the one in the slot of
\* the accepted reply, ping_index mod event_storage_count, of its host
CancelOnlySlot ==
  [][pc = "recv" /\ pc' = "recv" =>
       \A e \in UnlinkedByReply :
          /\ hist'.last_reply.accepted
          /\ e = host_get_timeout_event(hist'.last_reply.h, hist'.last_reply.index)]_vars

\* one-shot and count mode: the event unlinked carries the reply's ping_index
CancelOnlyMatchingFinite ==
  [][~loop_flag /\ pc = "recv" /\ pc' = "recv"
       => \A e \in UnlinkedByReply : MatchesReply(e)]_vars

\* the loss percentage as the reports print it
LossPercent(hr) == ((hr.num_sent - hr.num_recv) * 100) \div hr.num_sent

\* C37: for every host num_recv <= num_sent and num_recv <= num_recv_total
\* in every reachable state, every step that raises num_recv raises it by one
\* and raises num_sent by one too, and the loss percentage is within 0..100
\* whenever num_sent > 0.
RecvAccounting ==
  /\ [](\A h \in Hosts :
          /\ hosts[h].num_recv <= hosts[h].num_sent
          /\ hosts[h].num_recv <= hosts[h].num_recv_total
          /\ hosts[h].num_sent > 0 => LossPercent(hosts[h]) \in 0 .. 100)
  /\ [][\A h \in Hosts :
          hosts'[h].num_recv # hosts[h].num_recv =>
            /\ hosts'[h].num_recv = hosts[h].num_recv + 1
            /\ hosts'[h].num_sent = hosts[h].num_sent + 1
            /\ hosts'[h].num_recv_total = hosts[h].num_recv_total + 1]_vars

\* a host with one probe lost and one answered, and a further reply that
\* was received but not accepted: the loss is 50%
RecvAccountingWitness ==
  \E h \in Hosts :
    /\ hosts[h].num_sent = 2 /\ hosts[h].num_recv = 1
    /\ hosts[h].num_recv_total = 2
    /\ LossPercent(hosts[h]) = 50

\* C38: no send after shutdown request.  send_ping is never called while
\* finish_requested is set.
NoSendAfterStop == hist.late_sends = 0

\* C38 as the code has it: once finish_requested is set the loop starts no
\* further wait for replies and tests the flag right after the wait
\* computation; until then it still sends, but only from the top of the
\* loop: retries for timeout events that are due, and at most one ping event
\* that is due, after which the next step of the loop is the test.
StopThenSend ==
  /\ [](hist.late_pings <= 1 /\ hist.late_pings <= hist.late_sends)
  /\ [][finish_requested /\ pc # "recv" => pc' # "recv"]_vars
  /\ [][finish_requested /\ pc = "wait" => pc' \in {"wait", "finish"}]_vars
  /\ [][hist'.late_sends # hist.late_sends =>
          /\ finish_requested /\ pc = "loop"
          /\ hist'.late_sends = hist.late_sends + 1
          /\ IF hist'.late_pings # hist.late_pings
             THEN ~TimeoutDue /\ PingDue /\ pc' \in {"wait", "hang"}
             ELSE TimeoutDue /\ ~loop_flag /\ ~count_flag]_vars

\* a run stopped by the --fast-reachable threshold has ended after a retry
\* was sent to the silent target while finish_requested was set
StopThenSendWitness ==
  /\ pc = "done" /\ finish_requested /\ cfg.fast_reachable /\ ~cfg.env_sigint
  /\ hist.late_sends = 1 /\ hist.late_pings = 0

\* C39: bounded trial index.  In one-shot and count mode num_sent <= trials
\* for every host, so that the indices 0 .. num_sent - 1 read by the
\* all-RTTs report, like the ping_index of every send, lie in the domain of
\* resp_times.
TrialBound ==
  ~loop_flag =>
    /\ \A h \in Hosts : /\ hosts[h].num_sent <= trials
                         /\ 0 .. hosts[h].num_sent - 1 \subseteq DOMAIN hosts[h].resp_times
    /\ \A s \in DOMAIN hist.index_of : hist.index_of[s] \in 0 .. trials - 1

\* what holds of the code: the probes attempted, and the index of each, are
\* bounded by trials
AttemptBound ==
  ~loop_flag =>
    /\ \A h \in Hosts : hist.attempts[h] <= trials
    /\ \A s \in DOMAIN hist.index_of : hist.index_of[s] \in 0 .. trials - 1

\* the links of queue q are those of a doubly-linked list from first to last,
\* and every event outside it has no neighbour
WellLinked(q) ==
  LET n == Cardinality(DOMAIN q.ev) + 1
      w == WalkNext(q, q.first, n)
      b == WalkPrev(q, q.last, n)
  IN /\ (q.first = NULL) <=> (q.last = NULL)
     /\ q.first # NULL => q.ev[q.first].ev_prev = NULL
     /\ q.last # NULL => q.ev[q.last].ev_next = NULL
     /\ \A e \in Linked(q) :
          /\ q.ev[e].ev_next # NULL => q.ev[q.ev[e].ev_next].ev_prev = e
          /\ q.ev[e].ev_prev # NULL => q.ev[q.ev[e].ev_prev].ev_next = e
     /\ Len(w) < n /\ Len(b) = Len(w)
     /\ { w[i] : i \in 1 .. Len(w) } = { b[i] : i \in 1 .. Len(b) }
     /\ \A e \in DOMAIN q.ev \ Linked(q) :
          q.ev[e].ev_prev = NULL /\ q.ev[e].ev_next = NULL

\* C40: queue link integrity.  In every state of a run of the main loop both
\* event queues are well linked, and a reply accepted for a probe whose
\* timeout event is not linked leaves the timeout queue as it was.
LinkIntegrity ==
  /\ [](WellLinked(event_queue_ping) /\ WellLinked(event_queue_timeout))
  /\ [][(pc = "recv" /\ hist' # hist /\ hist'.last_reply.accepted /\ ~hist'.cancelled)
          => event_queue_timeout' = event_queue_timeout]_vars

\* the same for the runs in which no event was enqueued into a linked slot
NoClashLinkIntegrity ==
  /\ [](~hist.slot_clash =>
          WellLinked(event_queue_ping) /\ WellLinked(event_queue_timeout))
  /\ [][(pc = "recv" /\ hist' # hist /\ hist'.last_reply.accepted /\ ~hist'.cancelled)
          => event_queue_timeout' = event_queue_timeout]_vars

\* the same for the queue primitives called on slots that are not linked
PrimitiveLinkIntegrity ==
  /\ [](pc = "queue" => WellLinked(event_queue_ping))
  /\ [][(pc = "queue" /\ hist'.op = "remove" /\ Len(hist'.order) = Len(hist.order))
          => event_queue_ping' = event_queue_ping]_vars

====
